---- MODULE Spec2Model ----
(***************************************************************************)
(* TranscriptionWorker of app/transcribe.py: the session state machine     *)
(* (start / stop), the capture loop, and the bounded transcription queue   *)
(* with its single worker thread, interleaved at statement granularity;    *)
(* cleanup() and the pipeline teardown; the command loop of BridgeApp      *)
(* (app/bridge.py) that drives the worker from lines read on stdin.        *)
(***************************************************************************)
EXTENDS Integers, Sequences, FiniteSets, TLC

\* ------------------------------------------------------------------ bounds
\* number of session ids the model lets start() hand out
MaxSessions == 2
\* number of frames the audio source yields in all
MaxFrames == 2
\* the configured audio.max_session_bytes
MaxSessionBytes == 1
\* frame.nbytes: bytes are counted in units of one (fixed-size) audio frame
FrameBytes == 1
\* queue.Queue(maxsize=10)
QueueMaxSize == 10

\* ------------------------------------------------------------------ threads
\* threads that call the public start()/stop() (hotkey callbacks, bridge loop)
Controllers == {101}
\* the capture threads: thread i is the one spawned by the i-th start() of the run
CaptureThreads == 1..MaxSessions
Callers == Controllers \cup CaptureThreads
\* value of an unset Optional (None), of a free lock, of "no thread"
None == 0

VARIABLES
    running,            \* self._running (threading.Event)
    recording,          \* self._recording
    stopRequested,      \* self._stop_requested
    captureThread,      \* self._capture_thread: None or a capture thread
    currentSessionId,   \* self._current_session_id
    sessionIdCounter,   \* next value of self._session_id_counter
    buffer,             \* self._buffer: the frames, each tagged with its capturing thread
    sessionBytes,       \* self._session_bytes
    queue,              \* self._transcription_queue
    submitted,          \* self._transcription_task_count
    completed,          \* self._transcription_completed_count
    audioActive,        \* the audio source is started
    stateLock,          \* owner of self._state_lock, None when free
    pc,                 \* position of every controller and capture thread
    loc,                \* locals of the start()/stop() call a thread is in
    wpc,                \* position of the transcription worker thread
    wtask,              \* the task the worker holds (samples), None when it holds none
    wresult,            \* the TranscriptionResult handed to on_result for the held task
    cbRaised,           \* on_result raised for the held task (caught in _transcribe_once)
    transcriptionRunning, \* self._transcription_running
    transcriptionThread,  \* self._transcription_thread refers to the worker thread
    delivered,          \* history: the tasks on_result was called for, in order
    enqueued,           \* history: number of successful put_nowait calls
    recSess,            \* history: sessions begun by start() and not yet ended by stop()
    produced,           \* history: frames the audio source has yielded
    idBase,             \* history: session ids handed out before the modelled run
    assigned,           \* history: the session ids start() has taken, in order
    inCleanup,          \* the controllers that are inside cleanup()
    cleanups,           \* history: number of cleanup() calls that have returned
    released,           \* history: number of audio.stop() calls made by cleanup() itself
    bIsRecording,       \* BridgeApp._is_recording
    bShutdown,          \* BridgeApp._shutdown
    bpc,                \* position of BridgeApp.run
    bLine,              \* raw_line: the line BridgeApp.run has read last
    bEvents,            \* history: the events emitted since that line was read
    bRead,              \* history: number of lines read
    stats,              \* the dict transcription_stats is building, for the reading thread
    rawLimit,           \* audio_cfg["max_session_bytes"] as configured
    parsedLimit,        \* self._max_session_bytes as __init__ sets it
    cpc,                \* position of __init__ in the parsing of the limit
    asrResult,          \* asr_result: what fun_server.transcribe_audio returned
    replaceMap,         \* replace_map: the entries (src, dst) in declared order
    caseInsensitive,    \* case_insensitive
    tpc,                \* position of _transcribe_once after the engine call
    value,              \* value: the local of the running _apply_replacements
    correctionsCount,   \* corrections_count of the running _apply_replacements
    entry,              \* index of the map entry the running loop is at
    finalText,          \* final_text
    corrText,           \* corr_text
    rawText,            \* raw_text
    result,             \* the TranscriptionResult built for on_result
    passes              \* history: the calls of _apply_replacements made, in order

codeVars == <<running, recording, stopRequested, captureThread, currentSessionId,
              sessionIdCounter, buffer, sessionBytes, queue, submitted, completed,
              audioActive, stateLock>>
workerVars == <<wpc, wtask, wresult, delivered, cbRaised, transcriptionRunning,
                transcriptionThread>>
histVars == <<enqueued, recSess, produced, idBase, assigned>>
cleanupVars == <<inCleanup, cleanups, released>>
bridgeVars == <<bIsRecording, bShutdown, bpc, bLine, bEvents, bRead>>
statsVars == <<stats>>
configVars == <<rawLimit, parsedLimit, cpc>>
postVars == <<asrResult, replaceMap, caseInsensitive, tpc, value, correctionsCount, entry,
              finalText, corrText, rawText, result, passes>>
extVars == <<statsVars, configVars, postVars>>
vars == <<codeVars, pc, loc, workerVars, histVars, cleanupVars, bridgeVars, extVars>>

\* locals of a call, as they are before the call starts
NoLocals ==
    [sid |-> None, reason |-> "none", joinRef |-> None, combined |-> <<>>,
     newId |-> None, ended |-> {}, snap |-> <<>>, full |-> FALSE, put |-> 0, inc |-> 0]

\* an absent value (None) of a text, a result, a configuration entry
Missing == [type |-> "missing"]

\* the dict of transcription_stats before any of its values is read
NoStats ==
    [submitted |-> 0, completed |-> 0, pending |-> 0, is_recording |-> FALSE,
     is_transcribing |-> FALSE]

\* no thread reads the stats
StatsOff == stats = NoStats

\* the limit is taken as parsed: __init__ is not modelled step by step
ConfigOff ==
    /\ rawLimit = Missing
    /\ parsedLimit = 0
    /\ cpc = "off"

\* results are taken as built: _transcribe_once is not modelled step by step
PostOff ==
    /\ asrResult = Missing
    /\ replaceMap = <<>>
    /\ caseInsensitive = TRUE
    /\ tpc = "off"
    /\ value = <<>>
    /\ correctionsCount = 0
    /\ entry = 0
    /\ finalText = <<>>
    /\ corrText = 0
    /\ rawText = <<>>
    /\ result = Missing
    /\ passes = <<>>

\* the parts of the program that the run does not step through
ExtOff == StatsOff /\ ConfigOff /\ PostOff

\* no bridge process runs: the worker is driven by its controllers directly
BridgeOff ==
    /\ bIsRecording = FALSE
    /\ bShutdown = FALSE
    /\ bpc = "off"
    /\ bLine = ""
    /\ bEvents = <<>>
    /\ bRead = 0

\* the worker as __init__ leaves it
WorkerConstructed ==
    /\ running = FALSE
    /\ recording = FALSE
    /\ stopRequested = FALSE
    /\ captureThread = None
    /\ currentSessionId = None
    /\ sessionIdCounter = 1
    /\ buffer = <<>>
    /\ sessionBytes = 0
    /\ queue = <<>>
    /\ submitted = 0
    /\ completed = 0
    /\ audioActive = FALSE
    /\ stateLock = None
    /\ pc = [t \in Callers |-> IF t \in Controllers THEN "idle" ELSE "none"]
    /\ loc = [t \in Callers |-> NoLocals]
    /\ wpc = "get"
    /\ wtask = None
    /\ wresult = "none"
    /\ delivered = <<>>
    /\ cbRaised = FALSE
    /\ transcriptionRunning = TRUE
    /\ transcriptionThread = TRUE
    /\ enqueued = 0
    /\ recSess = {}
    /\ produced = 0
    /\ idBase = 0
    /\ assigned = <<>>
    /\ inCleanup = {}
    /\ cleanups = 0
    /\ released = 0

\* the worker as __init__ leaves it, driven by its controllers
InitConstructed == WorkerConstructed /\ BridgeOff /\ ExtOff

\* The state of a worker that has recorded and stopped QueueMaxSize + 1 sessions of
\* one frame each while the engine is still busy with the first of them: the worker
\* thread holds task 1, the tasks 2 .. QueueMaxSize + 1 fill the queue, and no
\* session is recording.  The bounds of the run count the last of these sessions as
\* the first session of the run: its capture thread has ended, its frame is produced.
InitFull ==
    /\ running = FALSE
    /\ recording = FALSE
    /\ stopRequested = TRUE
    /\ captureThread = None
    /\ currentSessionId = None
    /\ sessionIdCounter = QueueMaxSize + 2
    /\ buffer = <<>>
    /\ sessionBytes = FrameBytes
    /\ queue = [i \in 1..QueueMaxSize |-> i + 1]
    /\ submitted = QueueMaxSize + 1
    /\ completed = 0
    /\ audioActive = FALSE
    /\ stateLock = None
    /\ pc = [t \in Callers |-> IF t \in Controllers THEN "idle"
                               ELSE IF t = 1 THEN "done" ELSE "none"]
    /\ loc = [t \in Callers |-> NoLocals]
    /\ wpc = "transcribe"
    /\ wtask = 1
    /\ wresult = "none"
    /\ delivered = <<>>
    /\ cbRaised = FALSE
    /\ transcriptionRunning = TRUE
    /\ transcriptionThread = TRUE
    /\ enqueued = QueueMaxSize + 1
    /\ recSess = {}
    /\ produced = 1
    /\ idBase = QueueMaxSize
    /\ assigned = [i \in 1..(QueueMaxSize + 1) |-> i]
    /\ inCleanup = {}
    /\ cleanups = 0
    /\ released = 0
    /\ BridgeOff
    /\ ExtOff

\* a run starts at the constructed worker, or at the full queue (which a run from
\* construction reaches only beyond MaxSessions sessions)
Init == InitConstructed \/ InitFull

\* set one local of thread t's call
SetLoc(t, f, v) == [loc EXCEPT ![t][f] = v]

\* the capture thread t has been started and has not left _capture_loop
IsAlive(t) == t \in CaptureThreads /\ pc[t] \notin {"none", "done"}

\* the capture thread that belongs to session id s
ThreadOf(s) == s - idBase

\* ------------------------------------------------------------------ start()
\* a start() that never finds the worker running
AlreadyRunningNever == FALSE

\* `if self._running.is_set()`: start() returns without doing anything
AlreadyRunning == running

\* a counter that is read but not advanced
CounterNotAdvanced(c) == c

\* next(self._session_id_counter): the value the counter holds after the call
CounterAfterNext(c) == c + 1

\* a controller calls start()
CallStart(c) ==
    /\ pc[c] = "idle"
    /\ sessionIdCounter <= idBase + MaxSessions \/ running
    /\ pc' = [pc EXCEPT ![c] = "start1"]
    /\ UNCHANGED <<codeVars, loc, workerVars, histVars>>
    /\ UNCHANGED <<cleanupVars, bridgeVars, extVars>>

\* with self._state_lock: the running check; on a repeated start, the return
StartIgnored(c) ==
    /\ pc[c] = "start1"
    /\ stateLock = None
    /\ AlreadyRunning
    /\ pc' = [pc EXCEPT ![c] = "idle"]
    /\ UNCHANGED <<codeVars, loc, workerVars, histVars>>
    /\ UNCHANGED <<cleanupVars, bridgeVars, extVars>>

\* session_id = next(counter); self._running.set(); self._stop_requested.clear()
StartBegin(c) ==
    /\ pc[c] = "start1"
    /\ stateLock = None
    /\ ~AlreadyRunning
    /\ sessionIdCounter <= idBase + MaxSessions
    /\ stateLock' = c
    /\ loc' = SetLoc(c, "newId", sessionIdCounter)
    /\ sessionIdCounter' = CounterAfterNext(sessionIdCounter)
    /\ running' = TRUE
    /\ stopRequested' = FALSE
    /\ recSess' = recSess \cup {sessionIdCounter}
    /\ assigned' = Append(assigned, sessionIdCounter)
    /\ pc' = [pc EXCEPT ![c] = "startClear"]
    /\ UNCHANGED <<recording, captureThread, currentSessionId, buffer, sessionBytes,
                   queue, submitted, completed, audioActive, workerVars,
                   enqueued, produced, idBase>>
    /\ UNCHANGED <<cleanupVars, bridgeVars, extVars>>

\* with self._buffer_lock: self._buffer.clear(); self._session_bytes = 0
StartClear(c) ==
    /\ pc[c] = "startClear"
    /\ buffer' = <<>>
    /\ sessionBytes' = 0
    /\ pc' = [pc EXCEPT ![c] = "startAudio"]
    /\ UNCHANGED <<running, recording, stopRequested, captureThread, currentSessionId,
                   sessionIdCounter, queue, submitted, completed, audioActive,
                   stateLock, loc, workerVars, histVars>>
    /\ UNCHANGED <<cleanupVars, bridgeVars, extVars>>

\* self.audio.start()
StartAudio(c) ==
    /\ pc[c] = "startAudio"
    /\ audioActive' = TRUE
    /\ pc' = [pc EXCEPT ![c] = "startThread"]
    /\ UNCHANGED <<running, recording, stopRequested, captureThread, currentSessionId,
                   sessionIdCounter, buffer, sessionBytes, queue, submitted, completed,
                   stateLock, loc, workerVars, histVars>>
    /\ UNCHANGED <<cleanupVars, bridgeVars, extVars>>

\* self._recording.set(); the capture thread is created and started;
\* self._current_session_id = session_id; the state lock is released
StartThread(c) ==
    /\ pc[c] = "startThread"
    /\ recording' = TRUE
    /\ captureThread' = ThreadOf(loc[c].newId)
    /\ currentSessionId' = loc[c].newId
    /\ stateLock' = None
    /\ pc' = [pc EXCEPT ![c] = "idle", ![ThreadOf(loc[c].newId)] = "loop"]
    /\ loc' = [loc EXCEPT ![c] = NoLocals]
    /\ UNCHANGED <<running, stopRequested, sessionIdCounter, buffer, sessionBytes,
                   queue, submitted, completed, audioActive, workerVars, histVars>>
    /\ UNCHANGED <<cleanupVars, bridgeVars, extVars>>

\* ------------------------------------------------------------------ _capture_loop
\* `while self._recording.is_set()`, and the exit of the loop
CapLoop(t) ==
    /\ pc[t] = "loop"
    /\ pc' = [pc EXCEPT ![t] = IF recording THEN "get" ELSE "done"]
    /\ UNCHANGED <<codeVars, loc, workerVars, histVars>>
    /\ UNCHANGED <<cleanupVars, bridgeVars, extVars>>

\* what the queue of the audio source can hold: an array of samples (or a buffer that
\* np.frombuffer accepts), or an object that np.frombuffer rejects
FrameKinds == {"samples", "malformed"}

\* where the capture thread is once it holds a frame of kind k
AppendAt(k) == IF k = "malformed" THEN "appendBad" ELSE "append"

\* queue_obj.get(timeout=0.2) returns a frame (the queue of the audio source may
\* hold frames until audio.flush(), whether or not the source is started)
CapGetFrame(t) ==
    /\ pc[t] = "get"
    /\ produced < MaxFrames
    /\ produced' = produced + 1
    /\ \E k \in FrameKinds : pc' = [pc EXCEPT ![t] = AppendAt(k)]
    /\ UNCHANGED <<codeVars, loc, workerVars, enqueued, recSess, idBase, assigned>>
    /\ UNCHANGED <<cleanupVars, bridgeVars, extVars>>

\* queue_obj.get(timeout=0.2) times out: break or continue on self._recording
CapGetEmpty(t) ==
    /\ pc[t] = "get"
    /\ pc' = [pc EXCEPT ![t] = IF recording THEN "loop" ELSE "done"]
    /\ UNCHANGED <<codeVars, loc, workerVars, histVars>>
    /\ UNCHANGED <<cleanupVars, bridgeVars, extVars>>

\* with self._buffer_lock: self._buffer.append(frame); self._session_bytes += nbytes
CapAppend(t) ==
    /\ pc[t] = "append"
    /\ buffer' = Append(buffer, t)
    /\ sessionBytes' = sessionBytes + FrameBytes
    /\ pc' = [pc EXCEPT ![t] = "check"]
    /\ UNCHANGED <<running, recording, stopRequested, captureThread, currentSessionId,
                   sessionIdCounter, queue, submitted, completed, audioActive,
                   stateLock, loc, workerVars, histVars>>
    /\ UNCHANGED <<cleanupVars, bridgeVars, extVars>>

\* a handler that drops what was captured so far when a frame cannot be appended
BufferDroppedOnFailure(b) == <<>>

\* np.frombuffer raises before self._buffer.append and before self._session_bytes is
\* touched: the buffer as the exception handler leaves it
BufferAfterFailure(b) == b

\* np.frombuffer raises on a malformed frame: logged, nothing appended
CapAppendFails(t) ==
    /\ pc[t] = "appendBad"
    /\ buffer' = BufferAfterFailure(buffer)
    /\ pc' = [pc EXCEPT ![t] = "check"]
    /\ UNCHANGED <<running, recording, stopRequested, captureThread, currentSessionId,
                   sessionIdCounter, sessionBytes, queue, submitted, completed,
                   audioActive, stateLock, loc, workerVars, histVars>>
    /\ UNCHANGED <<cleanupVars, bridgeVars, extVars>>

\* `self._session_bytes >= self._max_session_bytes and not self._stop_requested.is_set()`
LimitReached == sessionBytes >= MaxSessionBytes /\ ~stopRequested

\* the size check after a frame: stop(_from_capture_thread=True), or the next round
CapCheck(t) ==
    /\ pc[t] = "check"
    /\ pc' = [pc EXCEPT ![t] = IF LimitReached THEN "stop1" ELSE "loop"]
    /\ UNCHANGED <<codeVars, loc, workerVars, histVars>>
    /\ UNCHANGED <<cleanupVars, bridgeVars, extVars>>

\* ------------------------------------------------------------------ stop()
\* a controller calls stop()
CallStop(c) ==
    /\ pc[c] = "idle"
    /\ pc' = [pc EXCEPT ![c] = "stop1"]
    /\ UNCHANGED <<codeVars, loc, workerVars, histVars>>
    /\ UNCHANGED <<cleanupVars, bridgeVars, extVars>>

\* where a thread continues when its stop() returns: a controller is idle again or,
\* inside cleanup(), goes on to _stop_transcription_worker(); the capture thread
\* breaks out of its loop and ends
AfterStop(t) ==
    IF t \in CaptureThreads THEN "done"
    ELSE IF t \in inCleanup THEN "tdCheck" ELSE "idle"

\* a stop() that never finds the worker stopped
NotRunningNever == FALSE

\* `if not self._running.is_set()`: stop() returns without doing anything
NotRunning == ~running

\* with self._state_lock: the running check; on a stop that finds nothing to stop, the return
StopIgnored(t) ==
    /\ pc[t] = "stop1"
    /\ stateLock = None
    /\ NotRunning
    /\ pc' = [pc EXCEPT ![t] = AfterStop(t)]
    /\ UNCHANGED <<codeVars, loc, workerVars, histVars>>
    /\ UNCHANGED <<cleanupVars, bridgeVars, extVars>>

\* reason = "size_limit" if self._session_bytes >= self._max_session_bytes else "user"
StopReason == IF sessionBytes >= MaxSessionBytes THEN "size_limit" ELSE "user"

\* session_id = self._current_session_id; reason; self._stop_requested.set()
StopBegin(t) ==
    /\ pc[t] = "stop1"
    /\ stateLock = None
    /\ ~NotRunning
    /\ stateLock' = t
    /\ loc' = [loc EXCEPT ![t].sid = currentSessionId, ![t].reason = StopReason]
    /\ stopRequested' = TRUE
    /\ pc' = [pc EXCEPT ![t] = "stopFlags"]
    /\ UNCHANGED <<running, recording, captureThread, currentSessionId, sessionIdCounter,
                   buffer, sessionBytes, queue, submitted, completed, audioActive,
                   workerVars, histVars>>
    /\ UNCHANGED <<cleanupVars, bridgeVars, extVars>>

\* a locked phase that does not end before the audio source is stopped
LockKeptAfterFlags(t) == t

\* the owner of the state lock once the `with self._state_lock` block of stop() is left
LockAfterFlags(t) == None

\* self._running.clear(); self._recording.clear();
\* capture_thread_to_join = self._capture_thread; self._capture_thread = None; lock released
StopFlags(t) ==
    /\ pc[t] = "stopFlags"
    /\ running' = FALSE
    /\ recording' = FALSE
    /\ captureThread' = None
    /\ stateLock' = LockAfterFlags(t)
    /\ loc' = [loc EXCEPT ![t].joinRef = captureThread,
                          ![t].ended = recSess,
                          ![t].snap = buffer]
    /\ recSess' = {}
    /\ pc' = [pc EXCEPT ![t] = "stopAudio"]
    /\ UNCHANGED <<stopRequested, currentSessionId, sessionIdCounter, buffer, sessionBytes,
                   queue, submitted, completed, audioActive, workerVars,
                   enqueued, produced, idBase, assigned>>
    /\ UNCHANGED <<cleanupVars, bridgeVars, extVars>>

\* a stop() that is never told it runs on the capture thread
FromCaptureThreadNever(t) == FALSE

\* the argument _from_capture_thread: True in the call the capture loop makes at the
\* size limit, False (the default) in every other call
FromCaptureThread(t) == t \in CaptureThreads

\* self.audio.stop(); `if not _from_capture_thread`: on to the join, or past it
StopAudio(t) ==
    /\ pc[t] = "stopAudio"
    /\ audioActive' = FALSE
    /\ pc' = [pc EXCEPT ![t] = IF FromCaptureThread(t) THEN "stopCombine" ELSE "stopJoin"]
    /\ UNCHANGED <<running, recording, stopRequested, captureThread, currentSessionId,
                   sessionIdCounter, buffer, sessionBytes, queue, submitted, completed,
                   stateLock, loc, workerVars, histVars>>
    /\ UNCHANGED <<cleanupVars, bridgeVars, extVars>>

\* capture_thread_to_join.join(timeout=5) returns because the thread has ended
\* (or there is no live thread to join)
StopJoined(t) ==
    /\ pc[t] = "stopJoin"
    /\ ~IsAlive(loc[t].joinRef)
    /\ pc' = [pc EXCEPT ![t] = "stopCombine"]
    /\ UNCHANGED <<codeVars, loc, workerVars, histVars>>
    /\ UNCHANGED <<cleanupVars, bridgeVars, extVars>>

\* capture_thread_to_join.join(timeout=5) returns on its timeout
StopJoinTimeout(t) ==
    /\ pc[t] = "stopJoin"
    /\ IsAlive(loc[t].joinRef)
    /\ pc' = [pc EXCEPT ![t] = "stopCombine"]
    /\ UNCHANGED <<codeVars, loc, workerVars, histVars>>
    /\ UNCHANGED <<cleanupVars, bridgeVars, extVars>>

\* a drain that takes an empty buffer for a block
NothingCapturedNever(b) == FALSE

\* `if not self._buffer: return None` in _combine_buffer, `if combined is None` in stop()
NothingCaptured(b) == b = <<>>

\* combined = self._combine_buffer() finds frames: they leave the buffer; self.audio.flush()
StopCombine(t) ==
    /\ pc[t] = "stopCombine"
    /\ ~NothingCaptured(buffer)
    /\ loc' = SetLoc(t, "combined", buffer)
    /\ buffer' = <<>>
    /\ pc' = [pc EXCEPT ![t] = "stopPut"]
    /\ UNCHANGED <<running, recording, stopRequested, captureThread, currentSessionId,
                   sessionIdCounter, sessionBytes, queue, submitted, completed,
                   audioActive, stateLock, workerVars, histVars>>
    /\ UNCHANGED <<cleanupVars, bridgeVars, extVars>>

\* combined = self._combine_buffer() returns None on an empty buffer; self.audio.flush()
StopCombineEmpty(t) ==
    /\ pc[t] = "stopCombine"
    /\ NothingCaptured(buffer)
    /\ pc' = [pc EXCEPT ![t] = "stopClear"]
    /\ UNCHANGED <<codeVars, loc, workerVars, histVars>>
    /\ UNCHANGED <<cleanupVars, bridgeVars, extVars>>

\* the task put_nowait enqueues, named by its place in the enqueue order; the samples
\* it carries are loc[t].combined, which the worker only passes on to the engine
NewTask(t) == enqueued + 1

\* a queue that never reports being full
QueueFullNever == FALSE

\* queue.Queue.put_nowait raises queue.Full
QueueFull == Len(queue) >= QueueMaxSize

\* self._transcription_queue.put_nowait(combined) succeeds
StopPut(t) ==
    /\ pc[t] = "stopPut"
    /\ ~QueueFull
    /\ queue' = Append(queue, NewTask(t))
    /\ enqueued' = enqueued + 1
    /\ loc' = SetLoc(t, "put", loc[t].put + 1)
    /\ pc' = [pc EXCEPT ![t] = "stopCount"]
    /\ UNCHANGED <<running, recording, stopRequested, captureThread, currentSessionId,
                   sessionIdCounter, buffer, sessionBytes, submitted, completed,
                   audioActive, stateLock, workerVars, recSess, produced, idBase, assigned>>
    /\ UNCHANGED <<cleanupVars, bridgeVars, extVars>>

\* a put that waits for a free slot instead of raising
PutWaitsForSlot == FALSE

\* put_nowait raises queue.Full at once when the queue is full
PutNowaitRaises == QueueFull

\* put_nowait raises queue.Full: logged, the samples are dropped
StopPutFull(t) ==
    /\ pc[t] = "stopPut"
    /\ PutNowaitRaises
    /\ loc' = SetLoc(t, "full", TRUE)
    /\ pc' = [pc EXCEPT ![t] = "stopClear"]
    /\ UNCHANGED <<codeVars, workerVars, histVars>>
    /\ UNCHANGED <<cleanupVars, bridgeVars, extVars>>

\* with self._state_lock: self._transcription_task_count += 1
StopCount(t) ==
    /\ pc[t] = "stopCount"
    /\ stateLock = None
    /\ submitted' = submitted + 1
    /\ loc' = SetLoc(t, "inc", loc[t].inc + 1)
    /\ pc' = [pc EXCEPT ![t] = "stopClear"]
    /\ UNCHANGED <<running, recording, stopRequested, captureThread, currentSessionId,
                   sessionIdCounter, buffer, sessionBytes, queue, completed,
                   audioActive, stateLock, workerVars, histVars>>
    /\ UNCHANGED <<cleanupVars, bridgeVars, extVars>>

\* with self._state_lock: self._current_session_id = None (both on the empty-buffer
\* return and at the end of stop())
StopClear(t) ==
    /\ pc[t] = "stopClear"
    /\ stateLock = None
    /\ currentSessionId' = None
    /\ pc' = [pc EXCEPT ![t] = AfterStop(t)]
    /\ loc' = [loc EXCEPT ![t] = NoLocals]
    /\ UNCHANGED <<running, recording, stopRequested, captureThread, sessionIdCounter,
                   buffer, sessionBytes, queue, submitted, completed, audioActive,
                   stateLock, workerVars, histVars>>
    /\ UNCHANGED <<cleanupVars, bridgeVars, extVars>>

\* ------------------------------------------------------------------ worker thread
\* what _transcribe_once can come to for one task:
\*   "raise"  _write_temp_wav raises (before any result exists)
\*   "error"  the engine returns success=False: an error-carrying result
\*   "ok"     the engine returns success=True: a result with text
Outcomes == {"raise", "error", "ok"}

\* number of tasks waiting in the queue (the None sentinel is not a task)
Waiting == Len(SelectSeq(queue, LAMBDA x : x # None))

\* the worker takes at most MaxSessions tasks off the queue in one run
WorkerBudget == enqueued - Waiting < MaxSessions

\* a worker that leaves its loop after every task
AfterTaskExit == "exited"

\* `while self._transcription_running.is_set()`: where the worker is after a task,
\* back in get() or out of the loop
AfterTask == IF transcriptionRunning THEN "get" ELSE "exited"

\* an exception of on_result that reaches the worker loop, whose handler goes on
\* with the next get()
AfterCallbackUncaught(raised) == IF raised THEN "get" ELSE "count"

\* `try: self.on_result(result) / except Exception`: _transcribe_once returns
\* normally whether or not the callback raised, and the worker goes on to count
AfterCallback(raised) == "count"

\* samples = self._transcription_queue.get(timeout=1.0) returns a task
WorkerGet ==
    /\ wpc = "get"
    /\ queue # <<>>
    /\ Head(queue) # None
    /\ WorkerBudget
    /\ wtask' = Head(queue)
    /\ queue' = Tail(queue)
    /\ wpc' = "transcribe"
    /\ UNCHANGED <<running, recording, stopRequested, captureThread, currentSessionId,
                   sessionIdCounter, buffer, sessionBytes, submitted, completed,
                   audioActive, stateLock, pc, loc, wresult, delivered, cbRaised,
                   transcriptionRunning, transcriptionThread, histVars>>
    /\ UNCHANGED <<cleanupVars, bridgeVars, extVars>>

\* self._transcribe_once(samples) returns: the temporary file is written, the engine
\* is called, the TranscriptionResult is built (with the replacement pass when the
\* engine succeeded) and handed to self.on_result; an exception of the callback is
\* caught and logged
WorkerTranscribe(o) ==
    /\ wpc = "transcribe"
    /\ o \in {"error", "ok"}
    /\ wresult' = o
    /\ delivered' = Append(delivered, wtask)
    /\ cbRaised' \in BOOLEAN
    /\ wpc' = AfterCallback(cbRaised')
    /\ UNCHANGED <<codeVars, pc, loc, wtask, transcriptionRunning, transcriptionThread,
                   histVars>>
    /\ UNCHANGED <<cleanupVars, bridgeVars, extVars>>

\* _write_temp_wav raises: the exception leaves _transcribe_once before any result
\* exists and is caught by `except Exception` of the worker loop, which logs it and
\* goes on with the next get()
WorkerRaise ==
    /\ wpc = "transcribe"
    /\ wpc' = AfterTask
    /\ wtask' = None
    /\ UNCHANGED <<codeVars, pc, loc, wresult, delivered, cbRaised, transcriptionRunning,
                   transcriptionThread, histVars>>
    /\ UNCHANGED <<cleanupVars, bridgeVars, extVars>>

\* self._transcription_completed_count += 1; task_done()
WorkerCount ==
    /\ wpc = "count"
    /\ completed' = completed + 1
    /\ wpc' = AfterTask
    /\ wtask' = None
    /\ wresult' = "none"
    /\ cbRaised' = FALSE
    /\ UNCHANGED <<running, recording, stopRequested, captureThread, currentSessionId,
                   sessionIdCounter, buffer, sessionBytes, queue, submitted,
                   audioActive, stateLock, pc, loc, delivered, transcriptionRunning,
                   transcriptionThread, histVars>>
    /\ UNCHANGED <<cleanupVars, bridgeVars, extVars>>

\* the worker takes the None sentinel off the queue and leaves its loop
WorkerGetSentinel ==
    /\ wpc = "get"
    /\ queue # <<>>
    /\ Head(queue) = None
    /\ queue' = Tail(queue)
    /\ wpc' = "exited"
    /\ UNCHANGED <<running, recording, stopRequested, captureThread, currentSessionId,
                   sessionIdCounter, buffer, sessionBytes, submitted, completed,
                   audioActive, stateLock, pc, loc, wtask, wresult, delivered, cbRaised,
                   transcriptionRunning, transcriptionThread, histVars>>
    /\ UNCHANGED <<cleanupVars, bridgeVars, extVars>>

\* get() times out (queue.Empty, continue) and the loop condition finds
\* self._transcription_running cleared: the worker leaves its loop
WorkerExit ==
    /\ wpc = "get"
    /\ ~transcriptionRunning
    /\ wpc' = "exited"
    /\ UNCHANGED <<codeVars, pc, loc, wtask, wresult, delivered, cbRaised,
                   transcriptionRunning, transcriptionThread, histVars>>
    /\ UNCHANGED <<cleanupVars, bridgeVars, extVars>>

\* ------------------------------------------------------------------ cleanup()
\* number of cleanup() calls of a run
MaxCleanups == 2

\* a controller calls cleanup() (at the end of main(), in BridgeApp.shutdown, in __del__)
CallCleanup(c) ==
    /\ pc[c] = "idle"
    /\ cleanups < MaxCleanups
    /\ inCleanup' = inCleanup \cup {c}
    /\ pc' = [pc EXCEPT ![c] = "cleanup1"]
    /\ UNCHANGED <<codeVars, loc, workerVars, histVars, cleanups, released, bridgeVars, extVars>>

\* `if self._running.is_set(): self.stop()`
CleanupCheckRunning(c) ==
    /\ pc[c] = "cleanup1"
    /\ pc' = [pc EXCEPT ![c] = IF running THEN "stop1" ELSE "tdCheck"]
    /\ UNCHANGED <<codeVars, loc, workerVars, histVars, cleanupVars, bridgeVars, extVars>>

\* _stop_transcription_worker: `if not self._transcription_running.is_set(): return`
TeardownSkipped(c) ==
    /\ pc[c] = "tdCheck"
    /\ ~transcriptionRunning
    /\ pc' = [pc EXCEPT ![c] = "cleanBuffer"]
    /\ UNCHANGED <<codeVars, loc, workerVars, histVars, cleanupVars, bridgeVars, extVars>>

\* _stop_transcription_worker goes on to wait for the queue to drain
TeardownBegin(c) ==
    /\ pc[c] = "tdCheck"
    /\ transcriptionRunning
    /\ pc' = [pc EXCEPT ![c] = "tdDrain"]
    /\ UNCHANGED <<codeVars, loc, workerVars, histVars, cleanupVars, bridgeVars, extVars>>

\* `while not self._transcription_queue.empty()` ends: the queue is empty
TeardownDrained(c) ==
    /\ pc[c] = "tdDrain"
    /\ queue = <<>>
    /\ pc' = [pc EXCEPT ![c] = "tdSignal"]
    /\ UNCHANGED <<codeVars, loc, workerVars, histVars, cleanupVars, bridgeVars, extVars>>

\* the drain loop breaks: `elapsed > timeout` with tasks still in the queue
TeardownDrainTimeout(c) ==
    /\ pc[c] = "tdDrain"
    /\ queue # <<>>
    /\ pc' = [pc EXCEPT ![c] = "tdSignal"]
    /\ UNCHANGED <<codeVars, loc, workerVars, histVars, cleanupVars, bridgeVars, extVars>>

\* self._transcription_running.clear()
TeardownSignal(c) ==
    /\ pc[c] = "tdSignal"
    /\ transcriptionRunning' = FALSE
    /\ pc' = [pc EXCEPT ![c] = "tdSentinel"]
    /\ UNCHANGED <<codeVars, loc, wpc, wtask, wresult, delivered, cbRaised,
                   transcriptionThread, histVars, cleanupVars, bridgeVars, extVars>>

\* self._transcription_queue.put(None, timeout=0.5) finds a free slot
TeardownPutSentinel(c) ==
    /\ pc[c] = "tdSentinel"
    /\ ~QueueFull
    /\ queue' = Append(queue, None)
    /\ pc' = [pc EXCEPT ![c] = "tdJoin"]
    /\ UNCHANGED <<running, recording, stopRequested, captureThread, currentSessionId,
                   sessionIdCounter, buffer, sessionBytes, submitted, completed,
                   audioActive, stateLock, loc, workerVars, histVars, cleanupVars,
                   bridgeVars, extVars>>

\* a put(None) without timeout: it waits for a free slot and never gives up
SentinelPutWaits == FALSE

\* put(None, timeout=0.5) gives up on a full queue
SentinelPutTimesOut == QueueFull

\* put(None, timeout=0.5) raises queue.Full after its timeout: logged, no sentinel
TeardownSentinelFull(c) ==
    /\ pc[c] = "tdSentinel"
    /\ SentinelPutTimesOut
    /\ pc' = [pc EXCEPT ![c] = "tdJoin"]
    /\ UNCHANGED <<codeVars, loc, workerVars, histVars, cleanupVars, bridgeVars, extVars>>

\* the worker thread has left its loop
WorkerEnded == wpc = "exited"

\* the worker thread has ended (is_alive() is False, or join returns at once);
\* self._transcription_thread = None
TeardownJoined(c) ==
    /\ pc[c] = "tdJoin"
    /\ WorkerEnded
    /\ transcriptionThread' = FALSE
    /\ pc' = [pc EXCEPT ![c] = "cleanBuffer"]
    /\ UNCHANGED <<codeVars, loc, wpc, wtask, wresult, delivered, cbRaised,
                   transcriptionRunning, histVars, cleanupVars, bridgeVars, extVars>>

\* self._transcription_thread.join(timeout=2.0) returns with the worker still alive:
\* logged; self._transcription_thread = None
TeardownJoinTimeout(c) ==
    /\ pc[c] = "tdJoin"
    /\ ~WorkerEnded
    /\ transcriptionThread' = FALSE
    /\ pc' = [pc EXCEPT ![c] = "cleanBuffer"]
    /\ UNCHANGED <<codeVars, loc, wpc, wtask, wresult, delivered, cbRaised,
                   transcriptionRunning, histVars, cleanupVars, bridgeVars, extVars>>

\* with self._buffer_lock: self._buffer.clear()
CleanupBuffer(c) ==
    /\ pc[c] = "cleanBuffer"
    /\ buffer' = <<>>
    /\ pc' = [pc EXCEPT ![c] = "cleanAudio"]
    /\ UNCHANGED <<running, recording, stopRequested, captureThread, currentSessionId,
                   sessionIdCounter, sessionBytes, queue, submitted, completed,
                   audioActive, stateLock, loc, workerVars, histVars, cleanupVars,
                   bridgeVars, extVars>>

\* self.audio.stop(); cleanup() returns
CleanupAudio(c) ==
    /\ pc[c] = "cleanAudio"
    /\ audioActive' = FALSE
    /\ released' = released + 1
    /\ cleanups' = cleanups + 1
    /\ inCleanup' = inCleanup \ {c}
    /\ pc' = [pc EXCEPT ![c] = "idle"]
    /\ UNCHANGED <<running, recording, stopRequested, captureThread, currentSessionId,
                   sessionIdCounter, buffer, sessionBytes, queue, submitted, completed,
                   stateLock, loc, workerVars, histVars, bridgeVars, extVars>>

\* is_transcribing: `not self._transcription_queue.empty()`
IsTranscribing == queue # <<>>

\* ------------------------------------------------------------------ specification
Next ==
    \/ \E c \in Controllers : CallStart(c)
    \/ \E c \in Controllers : StartIgnored(c)
    \/ \E c \in Controllers : StartBegin(c)
    \/ \E c \in Controllers : StartClear(c)
    \/ \E c \in Controllers : StartAudio(c)
    \/ \E c \in Controllers : StartThread(c)
    \/ \E c \in Controllers : CallStop(c)
    \/ \E t \in Callers : StopIgnored(t)
    \/ \E t \in Callers : StopBegin(t)
    \/ \E t \in Callers : StopFlags(t)
    \/ \E t \in Callers : StopAudio(t)
    \/ \E t \in Callers : StopJoined(t)
    \/ \E t \in Callers : StopJoinTimeout(t)
    \/ \E t \in Callers : StopCombine(t)
    \/ \E t \in Callers : StopCombineEmpty(t)
    \/ \E t \in Callers : StopPut(t)
    \/ \E t \in Callers : StopPutFull(t)
    \/ \E t \in Callers : StopCount(t)
    \/ \E t \in Callers : StopClear(t)
    \/ \E t \in CaptureThreads : CapLoop(t)
    \/ \E t \in CaptureThreads : CapGetFrame(t)
    \/ \E t \in CaptureThreads : CapGetEmpty(t)
    \/ \E t \in CaptureThreads : CapAppend(t)
    \/ \E t \in CaptureThreads : CapAppendFails(t)
    \/ \E t \in CaptureThreads : CapCheck(t)
    \/ WorkerGet
    \/ \E o \in Outcomes : WorkerTranscribe(o)
    \/ WorkerRaise
    \/ WorkerCount

Spec == Init /\ [][Next]_vars

\* cleanup() has not been called: the worker is in service
InService == cleanups = 0 /\ inCleanup = {}

\* the steps of cleanup() and of the worker thread's way out of its loop
CleanupStep ==
    \/ \E c \in Controllers : CallCleanup(c)
    \/ \E c \in Controllers : CleanupCheckRunning(c)
    \/ \E c \in Controllers : TeardownSkipped(c)
    \/ \E c \in Controllers : TeardownBegin(c)
    \/ \E c \in Controllers : TeardownDrained(c)
    \/ \E c \in Controllers : TeardownDrainTimeout(c)
    \/ \E c \in Controllers : TeardownSignal(c)
    \/ \E c \in Controllers : TeardownPutSentinel(c)
    \/ \E c \in Controllers : TeardownSentinelFull(c)
    \/ \E c \in Controllers : TeardownJoined(c)
    \/ \E c \in Controllers : TeardownJoinTimeout(c)
    \/ \E c \in Controllers : CleanupBuffer(c)
    \/ \E c \in Controllers : CleanupAudio(c)
    \/ WorkerGetSentinel
    \/ WorkerExit

\* the worker with its end of life: start() and stop() are called while it is in
\* service, cleanup() ends the service and may be called again
NextTeardown ==
    \/ \E c \in Controllers : InService /\ CallStart(c)
    \/ \E c \in Controllers : InService /\ CallStop(c)
    \/ \E c \in Controllers : StartIgnored(c)
    \/ \E c \in Controllers : StartBegin(c)
    \/ \E c \in Controllers : StartClear(c)
    \/ \E c \in Controllers : StartAudio(c)
    \/ \E c \in Controllers : StartThread(c)
    \/ \E t \in Callers : StopIgnored(t)
    \/ \E t \in Callers : StopBegin(t)
    \/ \E t \in Callers : StopFlags(t)
    \/ \E t \in Callers : StopAudio(t)
    \/ \E t \in Callers : StopJoined(t)
    \/ \E t \in Callers : StopJoinTimeout(t)
    \/ \E t \in Callers : StopCombine(t)
    \/ \E t \in Callers : StopCombineEmpty(t)
    \/ \E t \in Callers : StopPut(t)
    \/ \E t \in Callers : StopPutFull(t)
    \/ \E t \in Callers : StopCount(t)
    \/ \E t \in Callers : StopClear(t)
    \/ \E t \in CaptureThreads : CapLoop(t)
    \/ \E t \in CaptureThreads : CapGetFrame(t)
    \/ \E t \in CaptureThreads : CapGetEmpty(t)
    \/ \E t \in CaptureThreads : CapAppend(t)
    \/ \E t \in CaptureThreads : CapAppendFails(t)
    \/ \E t \in CaptureThreads : CapCheck(t)
    \/ WorkerGet
    \/ \E o \in Outcomes : WorkerTranscribe(o)
    \/ WorkerRaise
    \/ WorkerCount
    \/ CleanupStep

SpecTeardown == Init /\ [][NextTeardown]_vars

\* the steps a controller takes by itself once it is inside start(), stop() or cleanup()
ControllerRuns(c) ==
    \/ StartIgnored(c) \/ StartBegin(c) \/ StartClear(c) \/ StartAudio(c) \/ StartThread(c)
    \/ StopIgnored(c) \/ StopBegin(c) \/ StopFlags(c) \/ StopAudio(c)
    \/ StopJoined(c) \/ StopJoinTimeout(c) \/ StopCombine(c) \/ StopCombineEmpty(c)
    \/ StopPut(c) \/ StopPutFull(c) \/ StopCount(c) \/ StopClear(c)
    \/ CleanupCheckRunning(c) \/ TeardownSkipped(c) \/ TeardownBegin(c)
    \/ TeardownDrained(c) \/ TeardownDrainTimeout(c) \/ TeardownSignal(c)
    \/ TeardownPutSentinel(c) \/ TeardownSentinelFull(c)
    \/ TeardownJoined(c) \/ TeardownJoinTimeout(c)
    \/ CleanupBuffer(c) \/ CleanupAudio(c)

\* a capture thread inside the locked phase of stop() leaves it
LockReleased == \E t \in CaptureThreads : StopFlags(t)

\* the thread that called cleanup() keeps running and a holder of the state lock
\* releases it; nothing is assumed about the worker thread, which may stay in one
\* transcription for ever, nor about the capture loop
SpecTeardownFair ==
    /\ SpecTeardown
    /\ \A c \in Controllers : WF_vars(ControllerRuns(c))
    /\ WF_vars(LockReleased)

\* ------------------------------------------------------------------ properties
\* C1: in every reachable state at most one session is recording: a start() issued
\* while a session records creates no second session, and the only capture thread
\* the worker refers to is the one of the recording session.
C1_AtMostOneSessionRecording ==
    /\ Cardinality(recSess) <= 1
    /\ running <=> recSess # {}
    /\ \A s \in recSess : captureThread \in {None, ThreadOf(s)}
    /\ recSess = {} => captureThread = None

\* C1 witness: start() is called while a session records and the capture thread of
\* that session is itself entering stop()
C1_Witness ==
    \E c \in Controllers, t \in CaptureThreads :
        /\ pc[c] = "start1"
        /\ pc[t] = "stop1"
        /\ recSess = {idBase + t}

\* C8: a stop() that finds no session recording is a no-op: nothing is enqueued, and
\* the flags, the session id, the buffer, the byte counter, the queue, the counters
\* and the audio source stay as they are; the call returns.
C8_StopWhenNotRecordingIsNoOp ==
    [][\A t \in Callers :
          (pc[t] = "stop1" /\ pc'[t] # "stop1" /\ ~running)
              => /\ UNCHANGED <<codeVars, loc, workerVars, histVars>>
                 /\ pc'[t] = AfterStop(t)]_vars

\* C8 witness: a controller's stop() is about to find the worker stopped while the
\* audio source is still on (the capture thread's own stop() has not reached it)
C8_Witness ==
    \E c \in Controllers :
        /\ pc[c] = "stop1"
        /\ ~running
        /\ stateLock = None
        /\ audioActive
        /\ buffer # <<>>

\* C9: a start() that finds a session recording is a no-op: the session id stays, no
\* id is taken from the counter, buffer and byte counter are not reset, no capture
\* thread is started; the call returns.
C9_StartWhileRecordingIsNoOp ==
    [][\A c \in Controllers :
          (pc[c] = "start1" /\ pc'[c] # "start1" /\ running)
              => /\ UNCHANGED <<codeVars, loc, workerVars, histVars>>
                 /\ \A t \in CaptureThreads : pc'[t] = pc[t]
                 /\ pc'[c] = "idle"]_vars

\* C9 witness: start() is about to find the session recording, with a frame buffered
C9_Witness ==
    \E c \in Controllers :
        /\ pc[c] = "start1"
        /\ running
        /\ stateLock = None
        /\ currentSessionId # None
        /\ buffer # <<>>
        /\ sessionBytes > 0

\* C10: the session ids start() assigns are strictly increasing, hence no id is
\* assigned twice, whatever the interleaving of start() and stop().
C10_SessionIdsStrictlyIncreasing ==
    /\ \A i, j \in DOMAIN assigned : i < j => assigned[i] < assigned[j]
    /\ \A i \in DOMAIN assigned : assigned[i] < sessionIdCounter
    /\ \A s \in recSess : \E i \in DOMAIN assigned : assigned[i] = s
    /\ currentSessionId # None => \E i \in DOMAIN assigned : assigned[i] = currentSessionId

\* C10 witness: a second session has its id while the capture thread of the first
\* one is still alive (start, stop, start in quick succession)
C10_Witness ==
    /\ idBase = 0
    /\ Len(assigned) = 2
    /\ IsAlive(1)
    /\ recSess = {2}

\* the stop() of thread t returns, having ended a session (it went past the running check)
StopReturns(t) == pc[t] = "stopClear" /\ pc'[t] # "stopClear"

\* how many times the result callback was invoked for task n
Callbacks(n) == Cardinality({i \in DOMAIN delivered : delivered[i] = n})

\* the tasks the worker has taken off the queue and is through with
Handled == {n \in 1..(enqueued - Waiting) : n # wtask}

\* C2: every stop() that ends a session with at least one captured frame submits
\* exactly one task (one block enqueued, submittedCount increased by one), provided
\* the queue has a free slot.
C2_StopSubmitsExactlyOneTask ==
    [][\A t \in Callers :
          (StopReturns(t) /\ loc[t].snap # <<>> /\ ~loc[t].full /\ ~QueueFull)
              => (loc[t].put = 1 /\ loc[t].inc = 1)]_vars

\* C3: completedCount never exceeds submittedCount, in every state of the
\* interleaving of stop() and the worker thread.
C3_CompletedAtMostSubmitted == completed <= submitted

\* C4: every task the worker has dequeued and is through with had its callback
\* invoked exactly once; the task in hand had it invoked at most once.
C4_CallbackExactlyOncePerTask ==
    /\ \A n \in Handled : Callbacks(n) = 1
    /\ wtask # None => Callbacks(wtask) <= 1

\* C5: results are delivered in submission order: when the worker starts transcribing
\* a task, the callback of every task enqueued before it has been invoked; callbacks
\* come in enqueue order; the queue is first-in first-out; one task is in hand at a time.
C5_DeliveredInSubmissionOrder ==
    /\ \A i, j \in DOMAIN delivered : i < j => delivered[i] < delivered[j]
    /\ \A i \in DOMAIN queue : queue[i] = enqueued - Len(queue) + i
    /\ wpc = "transcribe" => \A n \in 1..(wtask - 1) : Callbacks(n) >= 1

\* C6: a stop() that finds the queue at capacity does not block and drops the block:
\* the queue and submittedCount stay as they are, and when the stop() returns the
\* session it ended is not recording and the current session id is cleared.
C6_FullQueueDropsBlock ==
    [][\A t \in Callers :
          /\ (pc[t] = "stopPut" /\ pc'[t] # "stopPut" /\ Len(queue) >= QueueMaxSize)
                => /\ pc'[t] = "stopClear"
                   /\ UNCHANGED <<queue, submitted, completed, enqueued>>
          /\ (StopReturns(t) /\ loc[t].full)
                => /\ loc[t].put = 0 /\ loc[t].inc = 0
                   /\ UNCHANGED <<queue, submitted>>
                   /\ currentSessionId' = None
                   /\ loc[t].ended \cap recSess' = {}
                   /\ (running' => currentSessionId' \notin loc[t].ended)
                   /\ pc'[t] = AfterStop(t)]_vars

\* C6 witness: a stop() that ended a session with a frame found the queue full and is
\* about to return
C6_Witness ==
    \E t \in Callers :
        /\ pc[t] = "stopClear"
        /\ loc[t].full
        /\ loc[t].snap # <<>>
        /\ Len(queue) = QueueMaxSize

\* C7: when the byte count reaches the limit, the capture thread's own stop() ends the
\* session with reason size_limit and (the queue having a free slot) submits exactly
\* one task, whose block holds every frame of the session up to the triggering one.
C7_SizeLimitSubmitsWholeSession ==
    [][\A t \in CaptureThreads :
          (StopReturns(t) /\ loc[t].ended = {idBase + t} /\ ~loc[t].full /\ ~QueueFull)
              => /\ loc[t].reason = "size_limit"
                 /\ loc[t].snap # <<>>
                 /\ loc[t].put = 1
                 /\ loc[t].inc = 1
                 /\ Len(loc[t].combined) >= Len(loc[t].snap)
                 /\ SubSeq(loc[t].combined, 1, Len(loc[t].snap)) = loc[t].snap]_vars

\* C11: teardown terminates: a cleanup() that has been called returns, whether or
\* not the queue drains, the sentinel fits into the queue, or the worker thread ever
\* finishes the transcription it is in.
C11_TeardownTerminates ==
    \A c \in Controllers : (c \in inCleanup) ~> (c \notin inCleanup)

\* C11 witness: cleanup() has returned although the queue was full, so that no
\* sentinel was enqueued, and the worker thread is still inside a transcription
C11_Witness ==
    /\ cleanups >= 1
    /\ inCleanup = {}
    /\ wpc = "transcribe"
    /\ Len(queue) = QueueMaxSize
    /\ Waiting = QueueMaxSize
    /\ ~transcriptionRunning

\* _stop_transcription_worker has run to its end
TeardownReturned == ~transcriptionThread

\* C12: whenever teardown has returned and no task waits in the queue,
\* completedCount equals submittedCount.
C12_CountsAgreeAfterTeardown ==
    (TeardownReturned /\ Waiting = 0) => completed = submitted

\* C13: a cleanup() after a completed cleanup() joins no thread, enqueues no
\* sentinel, makes no further audio.stop() call and leaves the worker state as it is.
C13_SecondCleanupDoesNothing ==
    [][\A c \in Controllers :
          (cleanups >= 1 /\ c \in inCleanup /\ pc'[c] # pc[c])
              => /\ pc'[c] \notin {"stop1", "tdDrain", "tdSignal", "tdSentinel", "tdJoin"}
                 /\ released' = released
                 /\ UNCHANGED <<codeVars, workerVars>>]_vars

\* C14: the worker thread survives a failing task: a task whose handling raises or
\* whose engine call reports failure leaves the worker in its loop with the queue as
\* it was, and the worker leaves the loop only after teardown has cleared
\* _transcription_running.
C14_WorkerSurvivesFailure ==
    [][/\ (wpc = "transcribe" /\ wpc' # "transcribe" /\ transcriptionRunning
              /\ (wtask' = None \/ wresult' = "error"))
             => /\ wpc' \in {"get", "count"}
                /\ queue' = queue
                /\ transcriptionRunning'
       /\ (wpc' = "exited") => ~transcriptionRunning']_vars

\* C14 witness: the first task raised (no callback for it) and the worker has since
\* delivered the result of the second task
C14_Witness ==
    /\ idBase = 0
    /\ Callbacks(1) = 0
    /\ Callbacks(2) = 1
    /\ transcriptionRunning

\* C15: an exception raised inside the result callback is caught: the worker goes on
\* to count the task in completedCount and then waits for the next task, the queue
\* being untouched.
C15_CallbackExceptionCaught ==
    [][/\ (wpc = "transcribe" /\ cbRaised')
             => /\ wpc' = "count"
                /\ wtask' = wtask
                /\ Callbacks(wtask)' = Callbacks(wtask) + 1
                /\ queue' = queue
       /\ (wpc = "count" /\ cbRaised /\ wpc' # "count")
             => /\ completed' = completed + 1
                /\ wpc' = "get"
                /\ queue' = queue]_vars

\* C15 witness: the callback of the task in hand has raised, the task is about to be
\* counted, and the next task waits in the queue
C15_Witness ==
    /\ cbRaised
    /\ wpc = "count"
    /\ Waiting >= 1
    /\ idBase = 0

\* a step of the transcription worker thread in service
WorkerRuns ==
    \/ WorkerGet
    \/ \E o \in Outcomes : WorkerTranscribe(o)
    \/ WorkerRaise
    \/ WorkerCount

\* a step of capture thread t: its loop, and the stop() it calls at the size limit
CaptureRuns(t) ==
    \/ CapLoop(t) \/ CapGetFrame(t) \/ CapGetEmpty(t) \/ CapAppend(t)
    \/ CapAppendFails(t) \/ CapCheck(t)
    \/ StopIgnored(t) \/ StopBegin(t) \/ StopFlags(t) \/ StopAudio(t)
    \/ StopJoined(t) \/ StopJoinTimeout(t) \/ StopCombine(t) \/ StopCombineEmpty(t)
    \/ StopPut(t) \/ StopPutFull(t) \/ StopCount(t) \/ StopClear(t)

\* every thread is scheduled fairly and every engine call comes to an end: the
\* worker thread, a controller inside start()/stop(), the capture threads
SpecLive ==
    /\ Spec
    /\ WF_vars(WorkerRuns)
    /\ \A c \in Controllers : WF_vars(ControllerRuns(c))
    /\ \A t \in CaptureThreads : WF_vars(CaptureRuns(t))

\* task n waits in the queue
InQueue(n) == \E i \in DOMAIN queue : queue[i] = n

\* C16: without cancellation, every task that has been submitted is eventually taken
\* off the queue, transcribed and handed to the result callback (the tasks of a run
\* that starts with a freshly constructed worker).
C16_EverySubmittedTaskDelivered ==
    \A n \in 1..MaxSessions :
        (idBase = 0 /\ InQueue(n)) ~> (Callbacks(n) >= 1)

\* thread t is inside stop()
InStop(t) ==
    pc[t] \in {"stop1", "stopFlags", "stopAudio", "stopJoin", "stopCombine", "stopPut",
               "stopCount", "stopClear"}

\* the next statement of thread t's stop()
StopStep(t) ==
    \/ StopIgnored(t) \/ StopBegin(t) \/ StopFlags(t) \/ StopAudio(t)
    \/ StopJoined(t) \/ StopJoinTimeout(t) \/ StopCombine(t) \/ StopCombineEmpty(t)
    \/ StopPut(t) \/ StopPutFull(t) \/ StopCount(t) \/ StopClear(t)

\* C17: stop() never waits for the pipeline: wherever a thread is inside stop(), its
\* next statement can run whatever the worker thread does, unless the state lock is
\* held by another caller of start()/stop() (never by the worker thread).
C17_StopNeverWaitsForPipeline ==
    \A t \in Callers :
        InStop(t) => (ENABLED StopStep(t) \/ stateLock \notin {None, t})

\* C17 witness: a stop() has handed its block to the queue and is about to return
\* while the worker thread is still inside the transcription of an earlier task
C17_Witness ==
    \E t \in Callers :
        /\ pc[t] = "stopClear"
        /\ loc[t].put = 1
        /\ loc[t].inc = 1
        /\ wpc = "transcribe"
        /\ Waiting >= 1

\* ------------------------------------------------------------------ BridgeApp.run
\* number of lines the bridge reads from stdin in one run
MaxLines == 3

\* the thread that runs BridgeApp.run and calls the worker's start()/stop()/cleanup()
BridgeThread == CHOOSE c \in Controllers : TRUE

\* what sys.stdin.readline() can return (line endings left out): end of input, a
\* blank line, text that is not JSON, JSON that is not an object, objects without
\* a usable cmd, an unknown command, and the four commands
BridgeLines ==
    {"", "\n", "start", "[1]", "5", "{}", "{\"cmd\": \"\"}", "{\"cmd\": \"fly\"}",
     "{\"cmd\": \" Start \"}", "{\"cmd\": \"start\"}", "{\"cmd\": \"stop\"}",
     "{\"cmd\": \"stats\"}", "{\"cmd\": \"shutdown\"}"}

\* raw_line.strip()
Strip(raw) == IF raw = "\n" THEN "" ELSE raw

\* json.loads(line): the Python value, or JSONDecodeError
JsonLoads(line) ==
    CASE line = "start" -> [type |-> "JSONDecodeError", keys |-> {}, cmd |-> ""]
      [] line = "[1]" -> [type |-> "list", keys |-> {}, cmd |-> ""]
      [] line = "5" -> [type |-> "int", keys |-> {}, cmd |-> ""]
      [] line = "{}" -> [type |-> "dict", keys |-> {}, cmd |-> ""]
      [] line = "{\"cmd\": \"\"}" -> [type |-> "dict", keys |-> {"cmd"}, cmd |-> ""]
      [] line = "{\"cmd\": \"fly\"}" -> [type |-> "dict", keys |-> {"cmd"}, cmd |-> "fly"]
      [] line = "{\"cmd\": \" Start \"}" ->
            [type |-> "dict", keys |-> {"cmd"}, cmd |-> " Start "]
      [] line = "{\"cmd\": \"start\"}" ->
            [type |-> "dict", keys |-> {"cmd"}, cmd |-> "start"]
      [] line = "{\"cmd\": \"stop\"}" -> [type |-> "dict", keys |-> {"cmd"}, cmd |-> "stop"]
      [] line = "{\"cmd\": \"stats\"}" ->
            [type |-> "dict", keys |-> {"cmd"}, cmd |-> "stats"]
      [] line = "{\"cmd\": \"shutdown\"}" ->
            [type |-> "dict", keys |-> {"cmd"}, cmd |-> "shutdown"]

\* only a dict has the method get: payload.get raises AttributeError for any other value
HasGet(payload) == payload.type = "dict"

\* str(v).lower().strip()
LowerStrip(v) == IF v = " Start " THEN "start" ELSE v

\* cmd = str(payload.get("cmd", "")).lower().strip()
Cmd(payload) == LowerStrip(IF "cmd" \in payload.keys THEN payload.cmd ELSE "")

\* the commands the loop dispatches
Commands == {"start", "stop", "stats", "shutdown"}

\* the line in hand is not blank and parses to a JSON object
IsObject == Strip(bLine) # "" /\ HasGet(JsonLoads(Strip(bLine)))

\* the line in hand carries command k
IsCommand(k) == IsObject /\ Cmd(JsonLoads(Strip(bLine))) = k

\* self.emit_event(e): one more line on the event channel
Emitted(e) == bEvents' = Append(bEvents, e)

\* the bridge as run() finds it: the worker constructed, bridge_ready emitted
InitBridge ==
    /\ WorkerConstructed
    /\ bIsRecording = FALSE
    /\ bShutdown = FALSE
    /\ bpc = "read"
    /\ bLine = ""
    /\ bEvents = <<"bridge_ready">>
    /\ bRead = 0
    /\ ExtOff

\* `while not self._shutdown`: raw_line = sys.stdin.readline()
BridgeReadLine ==
    /\ bpc = "read"
    /\ ~bShutdown
    /\ bRead < MaxLines
    /\ bLine' \in BridgeLines
    /\ bRead' = bRead + 1
    /\ bEvents' = <<>>
    /\ bpc' = "handle"
    /\ UNCHANGED <<codeVars, pc, loc, workerVars, histVars, cleanupVars,
                   bIsRecording, bShutdown>>
    /\ UNCHANGED extVars

\* `if raw_line == "": break`; the finally clause finds _shutdown unset, emits
\* bridge_error (loop_exit) and calls shutdown()
BridgeEOF ==
    /\ bpc = "handle"
    /\ bLine = ""
    /\ Emitted("bridge_error")
    /\ bpc' = "shutdown"
    /\ UNCHANGED <<codeVars, pc, loc, workerVars, histVars, cleanupVars,
                   bIsRecording, bShutdown, bLine, bRead>>
    /\ UNCHANGED extVars

\* `if not line: continue`
BridgeBlank ==
    /\ bpc = "handle"
    /\ bLine # ""
    /\ Strip(bLine) = ""
    /\ bpc' = "read"
    /\ UNCHANGED <<codeVars, pc, loc, workerVars, histVars, cleanupVars,
                   bIsRecording, bShutdown, bLine, bEvents, bRead>>
    /\ UNCHANGED extVars

\* json.loads raises JSONDecodeError: invalid_command (invalid_json), continue
BridgeInvalidJson ==
    /\ bpc = "handle"
    /\ Strip(bLine) # ""
    /\ JsonLoads(Strip(bLine)).type = "JSONDecodeError"
    /\ Emitted("invalid_command")
    /\ bpc' = "read"
    /\ UNCHANGED <<codeVars, pc, loc, workerVars, histVars, cleanupVars,
                   bIsRecording, bShutdown, bLine, bRead>>
    /\ UNCHANGED extVars

\* json.loads returns a value that is not a dict: payload.get raises AttributeError
\* outside the inner try blocks; `except Exception` around the while loop emits
\* bridge_error (run_loop), the finally clause emits bridge_error (loop_exit) and
\* calls shutdown()
BridgeNotObject ==
    /\ bpc = "handle"
    /\ Strip(bLine) # ""
    /\ JsonLoads(Strip(bLine)).type # "JSONDecodeError"
    /\ ~HasGet(JsonLoads(Strip(bLine)))
    /\ bEvents' = bEvents \o <<"bridge_error", "bridge_error">>
    /\ bpc' = "shutdown"
    /\ UNCHANGED <<codeVars, pc, loc, workerVars, histVars, cleanupVars,
                   bIsRecording, bShutdown, bLine, bRead>>
    /\ UNCHANGED extVars

\* `if not cmd`: invalid_command (missing_cmd), continue
BridgeMissingCmd ==
    /\ bpc = "handle"
    /\ IsCommand("")
    /\ Emitted("invalid_command")
    /\ bpc' = "read"
    /\ UNCHANGED <<codeVars, pc, loc, workerVars, histVars, cleanupVars,
                   bIsRecording, bShutdown, bLine, bRead>>
    /\ UNCHANGED extVars

\* the else branch of the dispatch: invalid_command (unknown_cmd)
BridgeUnknownCmd ==
    /\ bpc = "handle"
    /\ IsObject
    /\ Cmd(JsonLoads(Strip(bLine))) \notin Commands \cup {""}
    /\ Emitted("invalid_command")
    /\ bpc' = "read"
    /\ UNCHANGED <<codeVars, pc, loc, workerVars, histVars, cleanupVars,
                   bIsRecording, bShutdown, bLine, bRead>>
    /\ UNCHANGED extVars

\* handle_start with _is_recording set: recording_state (skipped), return
BridgeStartSkipped ==
    /\ bpc = "handle"
    /\ IsCommand("start")
    /\ bIsRecording
    /\ Emitted("recording_state")
    /\ bpc' = "read"
    /\ UNCHANGED <<codeVars, pc, loc, workerVars, histVars, cleanupVars,
                   bIsRecording, bShutdown, bLine, bRead>>
    /\ UNCHANGED extVars

\* handle_start: self.worker.start() is called
BridgeStartCall ==
    /\ bpc = "handle"
    /\ IsCommand("start")
    /\ ~bIsRecording
    /\ sessionIdCounter <= idBase + MaxSessions \/ running
    /\ pc[BridgeThread] = "idle"
    /\ pc' = [pc EXCEPT ![BridgeThread] = "start1"]
    /\ bpc' = "startCall"
    /\ UNCHANGED <<codeVars, loc, workerVars, histVars, cleanupVars,
                   bIsRecording, bShutdown, bLine, bEvents, bRead>>
    /\ UNCHANGED extVars

\* handle_start: start() has returned; self._is_recording = True; recording_state
BridgeStartReturn ==
    /\ bpc = "startCall"
    /\ pc[BridgeThread] = "idle"
    /\ bIsRecording' = TRUE
    /\ Emitted("recording_state")
    /\ bpc' = "read"
    /\ UNCHANGED <<codeVars, pc, loc, workerVars, histVars, cleanupVars,
                   bShutdown, bLine, bRead>>
    /\ UNCHANGED extVars

\* handle_stop: self.worker.stop() is called
BridgeStopCall ==
    /\ bpc = "handle"
    /\ IsCommand("stop")
    /\ pc[BridgeThread] = "idle"
    /\ pc' = [pc EXCEPT ![BridgeThread] = "stop1"]
    /\ bpc' = "stopCall"
    /\ UNCHANGED <<codeVars, loc, workerVars, histVars, cleanupVars,
                   bIsRecording, bShutdown, bLine, bEvents, bRead>>
    /\ UNCHANGED extVars

\* handle_stop: stop() has returned; self._is_recording = False; recording_state
BridgeStopReturn ==
    /\ bpc = "stopCall"
    /\ pc[BridgeThread] = "idle"
    /\ bIsRecording' = FALSE
    /\ Emitted("recording_state")
    /\ bpc' = "read"
    /\ UNCHANGED <<codeVars, pc, loc, workerVars, histVars, cleanupVars,
                   bShutdown, bLine, bRead>>
    /\ UNCHANGED extVars

\* handle_stats: the stats event
BridgeStats ==
    /\ bpc = "handle"
    /\ IsCommand("stats")
    /\ Emitted("stats")
    /\ bpc' = "read"
    /\ UNCHANGED <<codeVars, pc, loc, workerVars, histVars, cleanupVars,
                   bIsRecording, bShutdown, bLine, bRead>>
    /\ UNCHANGED extVars

\* handle_shutdown: shutdown_requested, then shutdown()
BridgeShutdownCmd ==
    /\ bpc = "handle"
    /\ IsCommand("shutdown")
    /\ Emitted("shutdown_requested")
    /\ bpc' = "shutdown"
    /\ UNCHANGED <<codeVars, pc, loc, workerVars, histVars, cleanupVars,
                   bIsRecording, bShutdown, bLine, bRead>>
    /\ UNCHANGED extVars

\* the positions at which shutdown() is called: by handle_shutdown or by the finally
\* clause of a run() that ends without a shutdown command; by the finally clause after
\* a shutdown command; by the exception handlers of main()
ShutdownCalls == {"shutdown", "finally", "mainExcept"}

\* the call in hand follows a shutdown command (the command emitted shutdown_requested)
FromCommand == \E i \in DOMAIN bEvents : bEvents[i] = "shutdown_requested"

\* a shutdown() that never finds the flag set
ShutdownDoneNever == FALSE

\* `if self._shutdown: return` at the top of shutdown(), under the bridge's state lock
ShutdownDone == bShutdown

\* shutdown(): self._shutdown = True; self.worker.stop() is called
BridgeShutdownBegin ==
    /\ bpc \in ShutdownCalls
    /\ ~ShutdownDone
    /\ pc[BridgeThread] = "idle"
    /\ bShutdown' = TRUE
    /\ pc' = [pc EXCEPT ![BridgeThread] = "stop1"]
    /\ bpc' = "shutdownStop"
    /\ UNCHANGED <<codeVars, loc, workerVars, histVars, cleanupVars,
                   bIsRecording, bLine, bEvents, bRead>>
    /\ UNCHANGED extVars

\* shutdown(): stop() has returned; self.worker.cleanup() is called
BridgeShutdownCleanup ==
    /\ bpc = "shutdownStop"
    /\ pc[BridgeThread] = "idle"
    /\ inCleanup' = inCleanup \cup {BridgeThread}
    /\ pc' = [pc EXCEPT ![BridgeThread] = "cleanup1"]
    /\ bpc' = "shutdownCleanup"
    /\ UNCHANGED <<codeVars, loc, workerVars, histVars, cleanups, released,
                   bIsRecording, bShutdown, bLine, bEvents, bRead>>
    /\ UNCHANGED extVars

\* shutdown(): cleanup() has returned; bridge_shutdown is emitted and shutdown()
\* returns: to handle_shutdown, after which run() breaks out of its loop into the
\* finally clause, or to the finally clause, after which run() returns
BridgeShutdownDone ==
    /\ bpc = "shutdownCleanup"
    /\ pc[BridgeThread] = "idle"
    /\ Emitted("bridge_shutdown")
    /\ bpc' = IF FromCommand THEN "finally" ELSE "returned"
    /\ UNCHANGED <<codeVars, pc, loc, workerVars, histVars, cleanupVars,
                   bIsRecording, bShutdown, bLine, bRead>>
    /\ UNCHANGED extVars

\* shutdown() finds _shutdown set and returns at once: the call of the finally clause
\* after a shutdown command, the call of main() after run() has shut down
BridgeShutdownSkipped ==
    /\ bpc \in ShutdownCalls
    /\ ShutdownDone
    /\ bpc' = IF bpc = "mainExcept" THEN "exited" ELSE "returned"
    /\ UNCHANGED <<codeVars, pc, loc, workerVars, histVars, cleanupVars,
                   bIsRecording, bShutdown, bLine, bEvents, bRead>>
    /\ UNCHANGED extVars

\* run() returns to main(), which ends
BridgeMainReturn ==
    /\ bpc = "returned"
    /\ bpc' = "exited"
    /\ UNCHANGED <<codeVars, pc, loc, workerVars, histVars, cleanupVars,
                   bIsRecording, bShutdown, bLine, bEvents, bRead>>
    /\ UNCHANGED extVars

\* run() was left by a KeyboardInterrupt or another exception, after its finally
\* clause: the handler of main() calls app.shutdown()
BridgeMainExcept ==
    /\ bpc = "returned"
    /\ bpc' = "mainExcept"
    /\ UNCHANGED <<codeVars, pc, loc, workerVars, histVars, cleanupVars,
                   bIsRecording, bShutdown, bLine, bEvents, bRead>>
    /\ UNCHANGED extVars

\* a step of BridgeApp.run
BridgeStep ==
    \/ BridgeReadLine
    \/ BridgeEOF
    \/ BridgeBlank
    \/ BridgeInvalidJson
    \/ BridgeNotObject
    \/ BridgeMissingCmd
    \/ BridgeUnknownCmd
    \/ BridgeStartSkipped
    \/ BridgeStartCall
    \/ BridgeStartReturn
    \/ BridgeStopCall
    \/ BridgeStopReturn
    \/ BridgeStats
    \/ BridgeShutdownCmd
    \/ BridgeShutdownBegin
    \/ BridgeShutdownCleanup
    \/ BridgeShutdownDone
    \/ BridgeShutdownSkipped
    \/ BridgeMainReturn
    \/ BridgeMainExcept

\* the bridge process: the command loop, the start()/stop()/cleanup() calls it makes
\* on its own thread, the capture threads and the transcription worker thread
NextBridge ==
    \/ BridgeStep
    \/ \E c \in Controllers : StartBegin(c)
    \/ \E c \in Controllers : StartClear(c)
    \/ \E c \in Controllers : StartAudio(c)
    \/ \E c \in Controllers : StartThread(c)
    \/ \E t \in Callers : StopIgnored(t)
    \/ \E t \in Callers : StopBegin(t)
    \/ \E t \in Callers : StopFlags(t)
    \/ \E t \in Callers : StopAudio(t)
    \/ \E t \in Callers : StopJoined(t)
    \/ \E t \in Callers : StopJoinTimeout(t)
    \/ \E t \in Callers : StopCombine(t)
    \/ \E t \in Callers : StopCombineEmpty(t)
    \/ \E t \in Callers : StopPut(t)
    \/ \E t \in Callers : StopCount(t)
    \/ \E t \in Callers : StopClear(t)
    \/ \E t \in CaptureThreads : CapLoop(t)
    \/ \E t \in CaptureThreads : CapGetFrame(t)
    \/ \E t \in CaptureThreads : CapGetEmpty(t)
    \/ \E t \in CaptureThreads : CapAppend(t)
    \/ \E t \in CaptureThreads : CapAppendFails(t)
    \/ \E t \in CaptureThreads : CapCheck(t)
    \/ WorkerGet
    \/ \E o \in Outcomes : WorkerTranscribe(o)
    \/ WorkerRaise
    \/ WorkerCount
    \/ WorkerGetSentinel
    \/ WorkerExit
    \/ \E c \in Controllers : CleanupCheckRunning(c)
    \/ \E c \in Controllers : TeardownBegin(c)
    \/ \E c \in Controllers : TeardownDrained(c)
    \/ \E c \in Controllers : TeardownDrainTimeout(c)
    \/ \E c \in Controllers : TeardownSignal(c)
    \/ \E c \in Controllers : TeardownPutSentinel(c)
    \/ \E c \in Controllers : TeardownJoined(c)
    \/ \E c \in Controllers : TeardownJoinTimeout(c)
    \/ \E c \in Controllers : CleanupBuffer(c)
    \/ \E c \in Controllers : CleanupAudio(c)

SpecBridge == InitBridge /\ [][NextBridge]_vars

\* the line in hand is one of the inputs that are not a well-formed command: text
\* that is not JSON, JSON that is not an object, an object with a missing or empty
\* cmd, an unknown cmd
NotWellFormed ==
    /\ Strip(bLine) # ""
    /\ \/ JsonLoads(Strip(bLine)).type # "dict"
       \/ Cmd(JsonLoads(Strip(bLine))) \notin Commands

\* C18: for every input line that is not a well-formed command the bridge emits an
\* invalid_command event, leaves the worker's session state and its own recording
\* and shutdown flags unchanged, and goes on reading.
C18_MalformedLineRejected ==
    [][(bpc = "handle" /\ NotWellFormed /\ bpc' # "handle")
          => /\ bEvents' = <<"invalid_command">>
             /\ bpc' = "read"
             /\ UNCHANGED <<running, recording, stopRequested, captureThread,
                            currentSessionId, sessionIdCounter, bIsRecording,
                            bShutdown>>]_vars

\* C19: when on_result is invoked for a task, completedCount already counts that
\* task: the count read inside the callback is at least the number of results
\* delivered so far, this one included.
C19_CountedBeforeCallback ==
    [][delivered' # delivered => completed >= Len(delivered')]_vars

\* C20: is_transcribing is true exactly when a task waits in the queue or is being
\* processed by the worker thread.
C20_IsTranscribingCoversTaskInHand ==
    IsTranscribing <=> (Waiting > 0 \/ wtask # None)

\* ------------------------------------------------------------------ transcription_stats
\* a controller reads transcription_stats: the dict display is evaluated entry by
\* entry, without any lock; "submitted": self._transcription_task_count
CallStats(c) ==
    /\ pc[c] = "idle"
    /\ stats' = [NoStats EXCEPT !.submitted = submitted]
    /\ pc' = [pc EXCEPT ![c] = "statsCompleted"]
    /\ UNCHANGED <<codeVars, loc, workerVars, histVars, cleanupVars, bridgeVars,
                   configVars, postVars>>

\* "completed": self._transcription_completed_count
StatsCompleted(c) ==
    /\ pc[c] = "statsCompleted"
    /\ stats' = [stats EXCEPT !.completed = completed]
    /\ pc' = [pc EXCEPT ![c] = "statsPending"]
    /\ UNCHANGED <<codeVars, loc, workerVars, histVars, cleanupVars, bridgeVars,
                   configVars, postVars>>

\* "pending": self.pending_transcriptions, which is self._transcription_queue.qsize()
StatsPending(c) ==
    /\ pc[c] = "statsPending"
    /\ stats' = [stats EXCEPT !.pending = Len(queue)]
    /\ pc' = [pc EXCEPT ![c] = "statsRecording"]
    /\ UNCHANGED <<codeVars, loc, workerVars, histVars, cleanupVars, bridgeVars,
                   configVars, postVars>>

\* "is_recording": self._running.is_set()
StatsRecording(c) ==
    /\ pc[c] = "statsRecording"
    /\ stats' = [stats EXCEPT !.is_recording = running]
    /\ pc' = [pc EXCEPT ![c] = "statsTranscribing"]
    /\ UNCHANGED <<codeVars, loc, workerVars, histVars, cleanupVars, bridgeVars,
                   configVars, postVars>>

\* "is_transcribing": self.is_transcribing; the dict is complete
StatsTranscribing(c) ==
    /\ pc[c] = "statsTranscribing"
    /\ stats' = [stats EXCEPT !.is_transcribing = IsTranscribing]
    /\ pc' = [pc EXCEPT ![c] = "statsDone"]
    /\ UNCHANGED <<codeVars, loc, workerVars, histVars, cleanupVars, bridgeVars,
                   configVars, postVars>>

\* the caller has the dict and is through with it
StatsReturn(c) ==
    /\ pc[c] = "statsDone"
    /\ stats' = NoStats
    /\ pc' = [pc EXCEPT ![c] = "idle"]
    /\ UNCHANGED <<codeVars, loc, workerVars, histVars, cleanupVars, bridgeVars,
                   configVars, postVars>>

\* the worker in service from construction, with a controller that also reads the stats
NextStats ==
    \/ \E c \in Controllers : CallStart(c)
    \/ \E c \in Controllers : StartIgnored(c)
    \/ \E c \in Controllers : StartBegin(c)
    \/ \E c \in Controllers : StartClear(c)
    \/ \E c \in Controllers : StartAudio(c)
    \/ \E c \in Controllers : StartThread(c)
    \/ \E c \in Controllers : CallStop(c)
    \/ \E t \in Callers : StopIgnored(t)
    \/ \E t \in Callers : StopBegin(t)
    \/ \E t \in Callers : StopFlags(t)
    \/ \E t \in Callers : StopAudio(t)
    \/ \E t \in Callers : StopJoined(t)
    \/ \E t \in Callers : StopJoinTimeout(t)
    \/ \E t \in Callers : StopCombine(t)
    \/ \E t \in Callers : StopCombineEmpty(t)
    \/ \E t \in Callers : StopPut(t)
    \/ \E t \in Callers : StopCount(t)
    \/ \E t \in Callers : StopClear(t)
    \/ \E t \in CaptureThreads : CapLoop(t)
    \/ \E t \in CaptureThreads : CapGetFrame(t)
    \/ \E t \in CaptureThreads : CapGetEmpty(t)
    \/ \E t \in CaptureThreads : CapAppend(t)
    \/ \E t \in CaptureThreads : CapAppendFails(t)
    \/ \E t \in CaptureThreads : CapCheck(t)
    \/ WorkerGet
    \/ \E o \in Outcomes : WorkerTranscribe(o)
    \/ WorkerRaise
    \/ WorkerCount
    \/ \E c \in Controllers : CallStats(c)
    \/ \E c \in Controllers : StatsCompleted(c)
    \/ \E c \in Controllers : StatsPending(c)
    \/ \E c \in Controllers : StatsRecording(c)
    \/ \E c \in Controllers : StatsTranscribing(c)
    \/ \E c \in Controllers : StatsReturn(c)

SpecStats == InitConstructed /\ [][NextStats]_vars

\* C26: every stats snapshot is a consistent read of one instant: in a complete
\* snapshot pending is 0 exactly when is_transcribing is false, and completed does
\* not exceed submitted.
C26_StatsSnapshotConsistent ==
    \A c \in Controllers :
        pc[c] = "statsDone"
            => /\ (stats.pending = 0 <=> ~stats.is_transcribing)
               /\ stats.completed <= stats.submitted

\* ------------------------------------------------------------------ __init__: the session limit
\* the largest magnitude of a configured number the model tries
MaxConfigInt == 5

\* 20 * 1024 * 1024: the default of audio.max_session_bytes, in DEFAULT_CONFIG and in
\* both fallbacks of __init__
DefaultMaxSessionBytes == 20 * 1024 * 1024

\* the strings the model tries as a configured value
ConfigStrings ==
    {<<>>, <<"a", "b", "c">>, <<"7">>, <<"1", "2">>, <<"0">>, <<"-", "3">>, <<"+", "4">>,
     <<" ", "2", " ">>, <<"1", ".", "5">>, <<"-">>}

\* what the JSON configuration can hold under audio.max_session_bytes: nothing, an
\* integer, a float (given in halves), a string, null, true/false, a list
ConfigValues ==
    {Missing, [type |-> "null"], [type |-> "list"]}
        \cup {[type |-> "int", val |-> n] : n \in -MaxConfigInt..MaxConfigInt}
        \cup {[type |-> "float", halves |-> h] : h \in -(2 * MaxConfigInt)..(2 * MaxConfigInt)}
        \cup {[type |-> "str", text |-> t] : t \in ConfigStrings}
        \cup {[type |-> "bool", val |-> b] : b \in BOOLEAN}

\* audio_cfg.get("max_session_bytes", 20 * 1024 * 1024)
RawLimit(v) == IF v = Missing THEN [type |-> "int", val |-> DefaultMaxSessionBytes] ELSE v

Digit == [c \in {"0", "1", "2", "3", "4", "5", "6", "7", "8", "9"} |->
             CASE c = "0" -> 0 [] c = "1" -> 1 [] c = "2" -> 2 [] c = "3" -> 3
               [] c = "4" -> 4 [] c = "5" -> 5 [] c = "6" -> 6 [] c = "7" -> 7
               [] c = "8" -> 8 [] c = "9" -> 9]

\* str.strip() on the characters of a string
RECURSIVE StripLeft(_)
StripLeft(t) == IF t # <<>> /\ Head(t) = " " THEN StripLeft(Tail(t)) ELSE t
RECURSIVE StripRight(_)
StripRight(t) ==
    IF t # <<>> /\ t[Len(t)] = " " THEN StripRight(SubSeq(t, 1, Len(t) - 1)) ELSE t
StripText(t) == StripRight(StripLeft(t))

\* the value of a run of decimal digits
RECURSIVE DigitsValue(_)
DigitsValue(t) ==
    IF t = <<>> THEN 0 ELSE 10 * DigitsValue(SubSeq(t, 1, Len(t) - 1)) + Digit[t[Len(t)]]

AllDigits(t) == t # <<>> /\ \A i \in DOMAIN t : t[i] \in DOMAIN Digit

\* int(str): surrounding blanks stripped, an optional sign, then digits only
IntOfString(t) ==
    LET u == StripText(t)
        signed == u # <<>> /\ Head(u) \in {"-", "+"}
        body == IF signed THEN Tail(u) ELSE u
    IN  IF AllDigits(body)
        THEN [ok |-> TRUE,
              val |-> IF signed /\ Head(u) = "-" THEN -DigitsValue(body)
                      ELSE DigitsValue(body)]
        ELSE [ok |-> FALSE, val |-> 0]

\* int(raw_limit): the integer, or ok = FALSE where int() raises (ValueError, TypeError)
IntOf(v) ==
    CASE v.type = "int" -> [ok |-> TRUE, val |-> v.val]
      [] v.type = "bool" -> [ok |-> TRUE, val |-> IF v.val THEN 1 ELSE 0]
      [] v.type = "float" ->
            [ok |-> TRUE,
             val |-> IF v.halves >= 0 THEN v.halves \div 2 ELSE -((-v.halves) \div 2)]
      [] v.type = "str" -> IntOfString(v.text)
      [] OTHER -> [ok |-> FALSE, val |-> 0]

\* a check that lets zero through
LimitRejectedBelowZero(n) == n < 0

\* `if self._max_session_bytes <= 0: raise ValueError`
LimitRejected(n) == n <= 0

\* __init__ reaches the parsing of the limit, with any configured value
InitConfig ==
    /\ WorkerConstructed
    /\ BridgeOff
    /\ StatsOff
    /\ PostOff
    /\ rawLimit \in ConfigValues
    /\ parsedLimit = 0
    /\ cpc = "convert"

\* self._max_session_bytes = int(raw_limit)
ConfigConvert ==
    /\ cpc = "convert"
    /\ IntOf(RawLimit(rawLimit)).ok
    /\ parsedLimit' = IntOf(RawLimit(rawLimit)).val
    /\ cpc' = "check"
    /\ UNCHANGED <<codeVars, pc, loc, workerVars, histVars, cleanupVars, bridgeVars,
                   statsVars, postVars, rawLimit>>

\* int(raw_limit) raises; `except Exception`: the default, and a warning
ConfigConvertFails ==
    /\ cpc = "convert"
    /\ ~IntOf(RawLimit(rawLimit)).ok
    /\ parsedLimit' = DefaultMaxSessionBytes
    /\ cpc' = "done"
    /\ UNCHANGED <<codeVars, pc, loc, workerVars, histVars, cleanupVars, bridgeVars,
                   statsVars, postVars, rawLimit>>

\* the value passes `if self._max_session_bytes <= 0`
ConfigAccepted ==
    /\ cpc = "check"
    /\ ~LimitRejected(parsedLimit)
    /\ cpc' = "done"
    /\ UNCHANGED <<codeVars, pc, loc, workerVars, histVars, cleanupVars, bridgeVars,
                   statsVars, postVars, rawLimit, parsedLimit>>

\* raise ValueError; `except Exception`: the default, and a warning
ConfigRejected ==
    /\ cpc = "check"
    /\ LimitRejected(parsedLimit)
    /\ parsedLimit' = DefaultMaxSessionBytes
    /\ cpc' = "done"
    /\ UNCHANGED <<codeVars, pc, loc, workerVars, histVars, cleanupVars, bridgeVars,
                   statsVars, postVars, rawLimit>>

NextConfig == ConfigConvert \/ ConfigConvertFails \/ ConfigAccepted \/ ConfigRejected

SpecConfig == InitConfig /\ [][NextConfig]_vars

\* the configured value is not a number: null, a list, a string that holds no number
NonNumeric(v) ==
    \/ v.type \in {"null", "list"}
    \/ v.type = "str" /\ v.text \in {<<>>, <<"a", "b", "c">>, <<"-">>}

\* the configured value is a number that is zero or negative
ZeroOrNegative(v) ==
    \/ v.type = "int" /\ v.val <= 0
    \/ v.type = "float" /\ v.halves <= 0
    \/ v.type = "str" /\ v.text \in {<<"0">>, <<"-", "3">>}

\* C23: for every configured value of audio.max_session_bytes the parsing comes to
\* an end and the effective limit is a positive integer: the default 20 MiB for a
\* value that is missing, not a number, zero or negative, and the value itself for a
\* positive integer.
C23_EffectiveLimitPositive ==
    /\ cpc \in {"convert", "check"} => ENABLED NextConfig
    /\ cpc = "done" =>
          /\ parsedLimit \in Nat \ {0}
          /\ (rawLimit = Missing \/ NonNumeric(rawLimit) \/ ZeroOrNegative(rawLimit))
                => parsedLimit = DefaultMaxSessionBytes
          /\ (rawLimit.type = "int" /\ rawLimit.val > 0) => parsedLimit = rawLimit.val

\* C23 witness: the parsing has ended for a configured zero
C23_Witness ==
    /\ cpc = "done"
    /\ rawLimit = [type |-> "int", val |-> 0]
    /\ parsedLimit = DefaultMaxSessionBytes

\* ------------------------------------------------------------------ _transcribe_once: the result
\* longest engine text the model tries
MaxText == 2
\* largest number of entries of the replacement map
MaxEntries == 2

\* the characters of the texts
Alphabet == {"a", "A", "b"}

\* the texts the engine can return as "text"
Texts == UNION {[1..k -> Alphabet] : k \in 0..MaxText}

\* the texts the engine returns as "raw_text" (the text before punctuation)
RawTexts == {<<>>, <<"a", "b">>}

\* the sources and the replacements of the map entries: the empty string, a letter,
\* and the replacement \1, which the regular-expression template rejects
Sources == {<<>>, <<"a">>, <<"b">>}
Replacements == {<<>>, <<"b">>, <<"\\", "1">>}
MapEntries == [src : Sources, dst : Replacements]

\* replace_map: a dict, its keys distinct, iterated in the order of declaration
ReplaceMaps ==
    {rm \in UNION {[1..k -> MapEntries] : k \in 0..MaxEntries} :
        \A i, j \in DOMAIN rm : i # j => rm[i].src # rm[j].src}

\* what fun_server.transcribe_audio returns: success with text and raw_text, or
\* failure with an error message
EngineResults ==
    {[type |-> "dict", success |-> TRUE, text |-> t, raw_text |-> r] :
        t \in Texts, r \in RawTexts}
    \cup {[type |-> "dict", success |-> FALSE, error |-> e] :
            e \in {"transcription_error", "init_error"}}

\* a string value of an Optional[str]
Str(e) == [type |-> "str", text |-> e]

\* case folding of re.IGNORECASE on the letters of the alphabet
Lower(c) == IF c = "A" THEN "a" ELSE IF c = "B" THEN "b" ELSE c

\* src matches v at position i (case folded when ci)
Matches(v, i, src, ci) ==
    /\ i + Len(src) - 1 <= Len(v)
    /\ \A k \in 1..Len(src) :
          IF ci THEN Lower(v[i + k - 1]) = Lower(src[k]) ELSE v[i + k - 1] = src[k]

\* `src in value`
Contains(v, src, ci) == \E i \in 1..Len(v) : Matches(v, i, src, ci)

\* pattern.sub(dst, value) and value.replace(src, dst) for a non-empty src: the
\* non-overlapping matches are replaced from left to right, in one pass
RECURSIVE SubFrom(_, _, _, _, _)
SubFrom(v, i, src, dst, ci) ==
    IF i > Len(v) THEN <<>>
    ELSE IF Matches(v, i, src, ci) THEN dst \o SubFrom(v, i + Len(src), src, dst, ci)
    ELSE <<v[i]>> \o SubFrom(v, i + 1, src, dst, ci)

\* the escapes a replacement template may hold after a backslash (a digit other than
\* 0 is a group reference, and the escaped pattern has no group)
TemplateEscapes == {"\\", "0", "a", "b", "f", "n", "r", "t", "v"}

\* the template dst, read from position i: a backslash at the end or before a
\* character that makes no escape is an error
RECURSIVE TemplateRaisesFrom(_, _)
TemplateRaisesFrom(dst, i) ==
    IF i > Len(dst) THEN FALSE
    ELSE IF dst[i] # "\\" THEN TemplateRaisesFrom(dst, i + 1)
    ELSE IF i = Len(dst) THEN TRUE
    ELSE IF dst[i + 1] \notin TemplateEscapes THEN TRUE
    ELSE TemplateRaisesFrom(dst, i + 2)

\* pattern.sub(dst, ...) raises re.error when it compiles dst as a template
TemplateRaises(dst) == TemplateRaisesFrom(dst, 1)

\* a count that is never increased
CountNever(new, old) == 0

\* `if new_val != value: corrections_count += 1`: the increment of one entry
CountIncrement(new, old) == IF new # old THEN 1 ELSE 0

\* a loop that takes the entries last to first
EntryAtReversed(rm, k) == rm[Len(rm) + 1 - k]

\* `for src, dst in replace_map.items()`: the k-th entry of the loop
EntryAt(rm, k) == rm[k]

\* the engine has returned: _transcribe_once is past its finally clause
InitPost ==
    /\ WorkerConstructed
    /\ BridgeOff
    /\ StatsOff
    /\ ConfigOff
    /\ asrResult \in EngineResults
    /\ replaceMap \in ReplaceMaps
    /\ caseInsensitive \in BOOLEAN
    /\ tpc = "engine"
    /\ value = <<>>
    /\ correctionsCount = 0
    /\ entry = 0
    /\ finalText = <<>>
    /\ corrText = 0
    /\ rawText = <<>>
    /\ result = Missing
    /\ passes = <<>>

\* `if not asr_result.get("success")`: the error-carrying result
PostEngineFailed ==
    /\ tpc = "engine"
    /\ ~asrResult.success
    /\ result' = [text |-> <<>>, raw_text |-> <<>>, error |-> Str(asrResult.error),
                  corrections |-> 0]
    /\ tpc' = "deliver"
    /\ UNCHANGED <<codeVars, pc, loc, workerVars, histVars, cleanupVars, bridgeVars,
                   statsVars, configVars, asrResult, replaceMap, caseInsensitive, value,
                   correctionsCount, entry, finalText, corrText, rawText, passes>>

\* the else branch: final_text, raw_text, the postprocess configuration; the call
\* _apply_replacements(final_text) begins
PostEngineOk ==
    /\ tpc = "engine"
    /\ asrResult.success
    /\ finalText' = asrResult.text
    /\ rawText' = asrResult.raw_text
    /\ value' = asrResult.text
    /\ entry' = 0
    /\ tpc' = "text"
    /\ UNCHANGED <<codeVars, pc, loc, workerVars, histVars, cleanupVars, bridgeVars,
                   statsVars, configVars, asrResult, replaceMap, caseInsensitive,
                   correctionsCount, corrText, result, passes>>

\* a pass that is not followed by the pass over raw_text
AfterTextPassSkipsRaw == "build"

\* where _transcribe_once is after the call for final_text: in the call for raw_text
AfterTextPass == "raw"

\* _apply_replacements returns (v, n) to _transcribe_once: final_text, corr_text =
\* ... and the call for raw_text begins, or raw_text, _ = ...
Returned(v, n) ==
    /\ passes' = Append(passes, [of |-> tpc, count |-> n])
    /\ entry' = 0
    /\ IF tpc = "text"
       THEN /\ finalText' = v
            /\ corrText' = n
            /\ value' = rawText
            /\ tpc' = AfterTextPass
            /\ UNCHANGED rawText
       ELSE /\ rawText' = v
            /\ value' = v
            /\ tpc' = "build"
            /\ UNCHANGED <<finalText, corrText>>

\* `if not value or not replace_map: return value, 0`
ApplyNothingToDo ==
    /\ tpc \in {"text", "raw"}
    /\ entry = 0
    /\ value = <<>> \/ replaceMap = <<>>
    /\ Returned(value, 0)
    /\ UNCHANGED <<codeVars, pc, loc, workerVars, histVars, cleanupVars, bridgeVars,
                   statsVars, configVars, asrResult, replaceMap, caseInsensitive,
                   correctionsCount, result>>

\* corrections_count = 0; the loop over replace_map.items() begins
ApplyBegin ==
    /\ tpc \in {"text", "raw"}
    /\ entry = 0
    /\ value # <<>>
    /\ replaceMap # <<>>
    /\ correctionsCount' = 0
    /\ entry' = 1
    /\ UNCHANGED <<codeVars, pc, loc, workerVars, histVars, cleanupVars, bridgeVars,
                   statsVars, configVars, asrResult, replaceMap, caseInsensitive, tpc,
                   value, finalText, corrText, rawText, result, passes>>

\* `if not src: continue`
ApplySkipEmpty ==
    /\ tpc \in {"text", "raw"}
    /\ entry \in 1..Len(replaceMap)
    /\ EntryAt(replaceMap, entry).src = <<>>
    /\ entry' = entry + 1
    /\ UNCHANGED <<codeVars, pc, loc, workerVars, histVars, cleanupVars, bridgeVars,
                   statsVars, configVars, asrResult, replaceMap, caseInsensitive, tpc,
                   value, correctionsCount, finalText, corrText, rawText, result, passes>>

\* case-insensitive: new_val = pattern.sub(dst, value); the count; value = new_val
ApplySub ==
    /\ tpc \in {"text", "raw"}
    /\ entry \in 1..Len(replaceMap)
    /\ caseInsensitive
    /\ LET e == EntryAt(replaceMap, entry)
           new == SubFrom(value, 1, e.src, e.dst, TRUE)
       IN  /\ e.src # <<>>
           /\ ~TemplateRaises(e.dst)
           /\ correctionsCount' = correctionsCount + CountIncrement(new, value)
           /\ value' = new
    /\ entry' = entry + 1
    /\ UNCHANGED <<codeVars, pc, loc, workerVars, histVars, cleanupVars, bridgeVars,
                   statsVars, configVars, asrResult, replaceMap, caseInsensitive, tpc,
                   finalText, corrText, rawText, result, passes>>

\* case-insensitive: pattern.sub raises; `except Exception`: return value, 0
ApplySubRaises ==
    /\ tpc \in {"text", "raw"}
    /\ entry \in 1..Len(replaceMap)
    /\ caseInsensitive
    /\ EntryAt(replaceMap, entry).src # <<>>
    /\ TemplateRaises(EntryAt(replaceMap, entry).dst)
    /\ Returned(value, 0)
    /\ UNCHANGED <<codeVars, pc, loc, workerVars, histVars, cleanupVars, bridgeVars,
                   statsVars, configVars, asrResult, replaceMap, caseInsensitive,
                   correctionsCount, result>>

\* case-sensitive: `if src in value`: the count; value = value.replace(src, dst)
ApplyReplace ==
    /\ tpc \in {"text", "raw"}
    /\ entry \in 1..Len(replaceMap)
    /\ ~caseInsensitive
    /\ LET e == EntryAt(replaceMap, entry)
       IN  /\ e.src # <<>>
           /\ IF Contains(value, e.src, FALSE)
              THEN /\ correctionsCount' = correctionsCount + 1
                   /\ value' = SubFrom(value, 1, e.src, e.dst, FALSE)
              ELSE UNCHANGED <<correctionsCount, value>>
    /\ entry' = entry + 1
    /\ UNCHANGED <<codeVars, pc, loc, workerVars, histVars, cleanupVars, bridgeVars,
                   statsVars, configVars, asrResult, replaceMap, caseInsensitive, tpc,
                   finalText, corrText, rawText, result, passes>>

\* the loop is through: return value, corrections_count
ApplyDone ==
    /\ tpc \in {"text", "raw"}
    /\ entry = Len(replaceMap) + 1
    /\ Returned(value, correctionsCount)
    /\ UNCHANGED <<codeVars, pc, loc, workerVars, histVars, cleanupVars, bridgeVars,
                   statsVars, configVars, asrResult, replaceMap, caseInsensitive,
                   correctionsCount, result>>

\* result = TranscriptionResult(text=final_text, raw_text=raw_text, ...,
\* corrections=int(corr_text)), error left at None
PostBuild ==
    /\ tpc = "build"
    /\ result' = [text |-> finalText, raw_text |-> rawText, error |-> Missing,
                  corrections |-> corrText]
    /\ tpc' = "deliver"
    /\ UNCHANGED <<codeVars, pc, loc, workerVars, histVars, cleanupVars, bridgeVars,
                   statsVars, configVars, asrResult, replaceMap, caseInsensitive, value,
                   correctionsCount, entry, finalText, corrText, rawText, passes>>

NextPost ==
    \/ PostEngineFailed
    \/ PostEngineOk
    \/ ApplyNothingToDo
    \/ ApplyBegin
    \/ ApplySkipEmpty
    \/ ApplySub
    \/ ApplySubRaises
    \/ ApplyReplace
    \/ ApplyDone
    \/ PostBuild

SpecPost == InitPost /\ [][NextPost]_vars

\* C24: a stop triggered by the capture thread itself never joins the capture thread
\* and never deadlocks: the capture thread is never at the join, its stop() returns
\* and the capture loop ends right after it, and every stop() that a controller runs
\* meanwhile returns as well.
C24_CaptureStopCompletes ==
    /\ [](\A t \in CaptureThreads : pc[t] # "stopJoin")
    /\ [][\A t \in CaptureThreads : (InStop(t) /\ ~InStop(t)') => pc'[t] = "done"]_vars
    /\ \A t \in Callers : InStop(t) ~> ~InStop(t)

\* C24 witness: the capture thread is past the point of the join in the stop() it
\* called at the size limit while a controller is inside stop() too
C24_Witness ==
    \E t \in CaptureThreads, c \in Controllers :
        /\ pc[t] = "stopCombine"
        /\ loc[t].reason = "size_limit"
        /\ InStop(c)

\* C25: neither start() nor stop() holds the state lock across a blocking call: the
\* lock is free of the caller when it starts or stops the audio source and when it
\* starts or joins the capture thread.
C25_LockNotHeldAcrossBlockingCall ==
    \A t \in Callers :
        pc[t] \in {"startAudio", "startThread", "stopAudio", "stopJoin"} => stateLock # t

\* C30: a malformed frame that cannot be appended is skipped: its step leaves the
\* buffer (the frames received before it) and the session byte counter as they are
\* and the capture loop goes on to its size check; a frame that follows is appended
\* to the same buffer.
C30_MalformedFrameSkipped ==
    [][\A t \in CaptureThreads :
          /\ (pc[t] = "appendBad" /\ pc'[t] # "appendBad")
                => /\ buffer' = buffer
                   /\ sessionBytes' = sessionBytes
                   /\ pc'[t] = "check"
          /\ (pc[t] = "append" /\ pc'[t] # "append")
                => /\ buffer' = Append(buffer, t)
                   /\ pc'[t] = "check"]_vars

\* C30 witness: of the two frames the only session has received, one was skipped
\* and the other is in the buffer, the capture loop being at its size check
C30_Witness ==
    /\ assigned = <<1>>
    /\ produced = 2
    /\ enqueued = 0
    /\ buffer = <<1>>
    /\ sessionBytes = FrameBytes
    /\ pc[1] = "check"

\* the passes of _apply_replacements a result was built after, in order
PassesOf == [k \in DOMAIN passes |-> passes[k].of]

\* C21: a delivered result with error set has empty text and raw_text and a
\* correction count of 0, and no replacement pass ran for it; a delivered result
\* without error was built after the replacement passes over text and raw_text
C21_ErrorResultsEmpty ==
    tpc = "deliver" =>
        /\ result.error # Missing =>
              /\ result.text = <<>>
              /\ result.raw_text = <<>>
              /\ result.corrections = 0
              /\ passes = <<>>
        /\ result.error = Missing => PassesOf = <<"text", "raw">>

\* an engine failure delivered while the map has an entry to apply
C21_Witness ==
    /\ tpc = "deliver"
    /\ ~asrResult.success
    /\ result.error = Str("transcription_error")
    /\ Len(replaceMap) = MaxEntries
    /\ replaceMap[1].src # <<>>

\* the positions of v where src occurs, in the matching mode ci
OccurrencesOf(v, src, ci) == {i \in 1..Len(v) : Matches(v, i, src, ci)}

\* v without the n characters from position i on
RemoveAt(v, i, n) == SubSeq(v, 1, i - 1) \o SubSeq(v, i + n, Len(v))

\* the call _apply_replacements(final_text) has returned
TextPassDone == passes # <<>>

\* C22: a single-entry map whose replacement is empty, applied to a text with exactly
\* one occurrence of the source, gives the text without that occurrence and a count
\* of 1; a map none of whose sources occurs in the text gives the text unchanged and
\* a count of 0
C22_SingleRemovalAndNoMatch ==
    TextPassDone =>
        /\ \A i \in 1..Len(asrResult.text) :
              (/\ Len(replaceMap) = 1
               /\ replaceMap[1].src # <<>>
               /\ replaceMap[1].dst = <<>>
               /\ OccurrencesOf(asrResult.text, replaceMap[1].src, caseInsensitive) = {i})
              => /\ finalText = RemoveAt(asrResult.text, i, Len(replaceMap[1].src))
                 /\ corrText = 1
        /\ (\A k \in DOMAIN replaceMap :
               replaceMap[k].src # <<>> =>
                   OccurrencesOf(asrResult.text, replaceMap[k].src, caseInsensitive) = {})
           => /\ finalText = asrResult.text
              /\ corrText = 0

\* the source "a" removed from "Ab" without regard to case
C22_Witness ==
    /\ tpc = "deliver"
    /\ caseInsensitive
    /\ replaceMap = <<[src |-> <<"a">>, dst |-> <<>>]>>
    /\ asrResult.success
    /\ asrResult.text = <<"A", "b">>
    /\ result.text = <<"b">>
    /\ result.corrections = 1

\* the number of matches of src that SubFrom replaces in v from position i on
RECURSIVE MatchesFrom(_, _, _, _)
MatchesFrom(v, i, src, ci) ==
    IF i > Len(v) THEN 0
    ELSE IF Matches(v, i, src, ci) THEN 1 + MatchesFrom(v, i + Len(src), src, ci)
    ELSE MatchesFrom(v, i + 1, src, ci)

\* the occurrences replaced by the entries k.. of rm, each entry counted in the text
\* the earlier entries left
RECURSIVE OccurrencesReplaced(_, _, _, _)
OccurrencesReplaced(v, rm, k, ci) ==
    IF k > Len(rm) THEN 0
    ELSE IF rm[k].src = <<>> THEN OccurrencesReplaced(v, rm, k + 1, ci)
    ELSE MatchesFrom(v, 1, rm[k].src, ci)
         + OccurrencesReplaced(SubFrom(v, 1, rm[k].src, rm[k].dst, ci), rm, k + 1, ci)

\* some entry of the map makes the pass over a non-empty text fail
SomeEntryRaises ==
    /\ caseInsensitive
    /\ \E k \in DOMAIN replaceMap :
          replaceMap[k].src # <<>> /\ TemplateRaises(replaceMap[k].dst)

\* C27: the reported count is the sum, over the non-empty sources of the map, of the
\* number of occurrences replaced, in both matching modes
C27_CountIsOccurrences ==
    (TextPassDone /\ ~SomeEntryRaises) =>
        corrText = OccurrencesReplaced(asrResult.text, replaceMap, 1, caseInsensitive)

\* v after the entries k.. of rm, taken in the declared order: an entry with an empty
\* source is passed over, every other entry replaces all its occurrences in the text
\* the entries before it produced
RECURSIVE AppliedInOrder(_, _, _, _)
AppliedInOrder(v, rm, k, ci) ==
    IF k > Len(rm) THEN v
    ELSE IF rm[k].src = <<>> THEN AppliedInOrder(v, rm, k + 1, ci)
    ELSE AppliedInOrder(SubFrom(v, 1, rm[k].src, rm[k].dst, ci), rm, k + 1, ci)

\* C28: the entries are applied one after another in the declared order, each to the
\* text the previous entries produced, entries with an empty source skipped; text and
\* raw_text are processed independently and the reported count is the one of text
C28_EntriesAppliedInOrder ==
    (tpc = "deliver" /\ asrResult.success /\ ~SomeEntryRaises) =>
        /\ result.text = AppliedInOrder(asrResult.text, replaceMap, 1, caseInsensitive)
        /\ result.raw_text =
              AppliedInOrder(asrResult.raw_text, replaceMap, 1, caseInsensitive)
        /\ PassesOf = <<"text", "raw">>
        /\ result.corrections = passes[1].count

\* "b" removed before "a" becomes "b": the text "a" ends as "b" with one correction,
\* the raw text "ab" as "b" with two
C28_Witness ==
    /\ tpc = "deliver"
    /\ replaceMap = <<[src |-> <<"b">>, dst |-> <<>>], [src |-> <<"a">>, dst |-> <<"b">>]>>
    /\ asrResult.success
    /\ asrResult.text = <<"a">>
    /\ asrResult.raw_text = <<"a", "b">>
    /\ result.text = <<"b">>
    /\ result.raw_text = <<"b">>
    /\ result.corrections = 1
    /\ passes[2].count = 2

\* the pass over the engine's text fails at some entry
TextPassFails == asrResult.text # <<>> /\ SomeEntryRaises

\* C29: when the replacement pass fails at an entry, the result is delivered without
\* error, its text is the engine's original text, unmodified by any earlier entry,
\* and its correction count is 0
C29_FailedPassKeepsOriginal ==
    (tpc = "deliver" /\ asrResult.success /\ TextPassFails) =>
        /\ result.error = Missing
        /\ result.text = asrResult.text
        /\ result.corrections = 0

\* C31: a stop() that finds no frame to drain enqueues nothing and leaves
\* submittedCount as it is; when it returns, the session it ended is not recording
\* and the current session id is cleared; and a start() that returns afterwards has
\* begun a new session: running and recording are set, the session id is the newest
\* id and its capture thread is started.
C31_EmptySessionSubmitsNothing ==
    [][/\ \A t \in Callers :
            /\ (pc[t] = "stopCombine" /\ pc'[t] # "stopCombine" /\ buffer = <<>>)
                  => /\ pc'[t] = "stopClear"
                     /\ UNCHANGED <<queue, submitted, enqueued>>
            /\ (StopReturns(t) /\ loc[t].combined = <<>>)
                  => /\ loc[t].put = 0 /\ loc[t].inc = 0
                     /\ UNCHANGED <<queue, submitted, enqueued>>
                     /\ currentSessionId' = None
                     /\ loc[t].ended \cap recSess' = {}
       /\ \A c \in Controllers :
            (pc[c] = "startThread" /\ pc'[c] # "startThread")
               => /\ running' /\ recording'
                  /\ currentSessionId' = assigned[Len(assigned)]
                  /\ IsAlive(captureThread)']_vars

\* C31 witness: the first session was stopped before the audio source yielded a
\* frame, nothing was submitted, and the second session records
C31_Witness ==
    /\ idBase = 0
    /\ produced = 0
    /\ assigned = <<1, 2>>
    /\ enqueued = 0
    /\ submitted = 0
    /\ running /\ recording
    /\ currentSessionId = 2
    /\ \A c \in Controllers : pc[c] = "idle"

\* thread t is inside a stop() that has yet to drain the buffer
AwaitsDrain(t) == pc[t] \in {"stopAudio", "stopJoin", "stopCombine"}

\* C32: while a stop() has yet to drain the buffer, the buffer changes only by an
\* append of the capture loop or by the drain of a stop(), which takes all of it:
\* neither start() nor cleanup() removes frames that are waiting to be drained.
C32_BufferDrainedOnlyByStop ==
    [][(buffer' # buffer /\ \E t \in Callers : AwaitsDrain(t))
          => \/ \E t \in CaptureThreads : pc[t] = "append" /\ buffer' = Append(buffer, t)
             \/ \E t \in Callers :
                   /\ pc[t] = "stopCombine"
                   /\ loc'[t].combined = buffer
                   /\ buffer' = <<>>]_vars

\* the start() of session s has started the audio source
AudioStartedFor(s) ==
    \/ pc[ThreadOf(s)] # "none"
    \/ \E c \in Controllers : pc[c] = "startThread" /\ loc[c].newId = s

\* C33: the block a stop() takes for the session it ends holds the frames of that
\* session only, in capture order, none of those the session had when the stop
\* began missing; and the audio.stop() of that stop() never halts the audio source
\* that the start() of a later session has started.
C33_SessionAudioIsolated ==
    [][\A t \in Callers :
          /\ StopReturns(t)
                => /\ \A i \in DOMAIN loc[t].combined :
                         idBase + loc[t].combined[i] \in loc[t].ended
                   /\ Len(loc[t].combined) >= Len(loc[t].snap)
                   /\ SubSeq(loc[t].combined, 1, Len(loc[t].snap)) = loc[t].snap
          /\ (pc[t] = "stopAudio" /\ pc'[t] # "stopAudio"
              /\ \E s \in recSess : AudioStartedFor(s))
                => audioActive']_vars

\* C34: whenever a session is recording, its start() has returned and no later
\* start() has begun, the current session id is the id of that session: a stop()
\* finishing for an earlier session does not clear or overwrite it.
C34_SessionIdBelongsToRecordingSession ==
    \A s \in recSess :
        (/\ running /\ recording
         /\ s = assigned[Len(assigned)]
         /\ \A c \in Controllers : pc[c] \notin {"startClear", "startAudio", "startThread"})
            => currentSessionId = s

\* ------------------------------------------------------------------ a failing audio source
\* self.audio.start() raises: the exception leaves the `with self._state_lock` block
\* and start(); what start() has set before line 225 stays as it is
StartAudioFails(c) ==
    /\ pc[c] = "startAudio"
    /\ stateLock' = None
    /\ pc' = [pc EXCEPT ![c] = "idle"]
    /\ loc' = [loc EXCEPT ![c] = NoLocals]
    /\ UNCHANGED <<running, recording, stopRequested, captureThread, currentSessionId,
                   sessionIdCounter, buffer, sessionBytes, queue, submitted, completed,
                   audioActive, workerVars, histVars>>
    /\ UNCHANGED <<cleanupVars, bridgeVars, extVars>>

NextAudioFail ==
    \/ Next
    \/ \E c \in Controllers : StartAudioFails(c)

\* the worker with an audio source whose start can fail
SpecAudioFail == Init /\ [][NextAudioFail]_vars

\* C35: a start() in which audio.start() raises leaves the worker not running, with
\* no capture thread and the state lock free; and a start() is ignored as already
\* running only while a session is recording.
C35_FailedStartLeavesWorkerStopped ==
    [][\A c \in Controllers :
          /\ (pc[c] = "startAudio" /\ pc'[c] = "idle")
                => /\ ~running'
                   /\ captureThread' = None
                   /\ stateLock' = None
          /\ (pc[c] = "start1" /\ pc'[c] = "idle") => recording]_vars

\* C36: once a cleanup() has returned, the result callback is not invoked again and
\* completedCount does not change again, whether or not the teardown's join of the
\* worker thread timed out.
C36_NoResultAfterCleanup ==
    [][cleanups >= 1 => UNCHANGED <<delivered, completed>>]_vars

\* the next statement of thread t: of its start(), stop() or capture loop
ThreadStep(t) ==
    IF t \in Controllers THEN ControllerRuns(t) ELSE CaptureRuns(t)

\* thread t is inside start() or stop(), or is a capture thread that has not ended
InCall(t) ==
    IF t \in Controllers THEN pc[t] # "idle" ELSE IsAlive(t)

\* the start() of thread t would begin a session beyond the sessions of the run
OutOfSessions(t) ==
    pc[t] = "start1" /\ ~running /\ sessionIdCounter > idBase + MaxSessions

\* the positions whose next statement runs under the buffer lock: the clear of
\* start(), the append of the capture loop, the drain of _combine_buffer
BufferLockSections == {"startClear", "append", "appendBad", "stopCombine"}

\* C37: no state is a deadlock among the threads: a thread inside a call can take its
\* next step, or the state lock is held by another thread, and the holder of the
\* state lock can always take its next step and is never at the join or at the wait
\* for a frame; a statement under the buffer lock never acquires the state lock (the
\* order is state lock, then buffer lock), and the drain and the append run without
\* the state lock.
C37_NoDeadlock ==
    /\ [](\A t \in Callers :
             /\ (InCall(t) /\ ~OutOfSessions(t))
                   => (ENABLED ThreadStep(t) \/ stateLock \notin {None, t})
             /\ stateLock = t
                   => /\ ENABLED ThreadStep(t)
                      /\ pc[t] \in {"startClear", "startAudio", "startThread", "stopFlags"}
             /\ pc[t] \in {"append", "appendBad", "stopCombine"} => stateLock # t)
    /\ [][\A t \in Callers :
             (pc[t] \in BufferLockSections /\ pc'[t] # pc[t]) => stateLock' = stateLock]_vars

\* C37 witness: a controller waits for the state lock at the top of start() while the
\* capture thread holds it inside the locked phase of its own stop()
C37_Witness ==
    \E c \in Controllers, t \in CaptureThreads :
        /\ pc[c] = "start1"
        /\ pc[t] = "stopFlags"
        /\ stateLock = t

\* C38: whenever the bridge is between two commands, its _is_recording flag equals
\* the worker's is_running flag; and a start command is skipped as already recording
\* only while the worker is running.
C38_BridgeFlagFollowsWorker ==
    /\ (bpc = "read" /\ ~bShutdown) => (bIsRecording <=> running)
    /\ (bpc = "handle" /\ IsCommand("start") /\ bIsRecording) => running

\* how many times the bridge_shutdown event was emitted since the last line was read
ShutdownEvents == Cardinality({i \in DOMAIN bEvents : bEvents[i] = "bridge_shutdown"})

\* C39: the bridge shuts down at most once: worker.cleanup() is called at most once
\* and bridge_shutdown is emitted at most once, however often shutdown() is called
\* (by the shutdown command, by the finally clause of run(), by main()); and after a
\* shutdown command no further line is read and no command is handled.
C39_ShutdownAtMostOnce ==
    /\ [](/\ cleanups + Cardinality(inCleanup) <= 1
          /\ ShutdownEvents <= 1
          /\ bShutdown => bpc \notin {"read", "handle", "startCall", "stopCall"})
    /\ [][bShutdown => UNCHANGED <<bRead, bLine, bIsRecording>>]_vars

\* C39 witness: after a shutdown command the finally clause of run() and the handler
\* of main() have called shutdown() again, and the process has ended with one
\* cleanup() and one bridge_shutdown event
C39_Witness ==
    /\ bpc = "exited"
    /\ FromCommand
    /\ cleanups = 1
    /\ ShutdownEvents = 1

\* the capture loop of t appends a frame
Appends(t) == pc[t] = "append" /\ pc'[t] = "check"

\* the byte size of the block a stop() has drained
BlockBytes(t) == Len(loc[t].combined) * FrameBytes

\* C40: the capture loop appends no frame to a session whose byte count has reached
\* max_session_bytes, and the block of every session is smaller than max_session_bytes
\* plus one frame.
C40_BlockBelowLimitPlusFrame ==
    /\ [][\A t \in CaptureThreads : Appends(t) => sessionBytes < MaxSessionBytes]_vars
    /\ [](\A t \in Callers : BlockBytes(t) < MaxSessionBytes + FrameBytes)

====
